---- MODULE Spec2Model ----
(***************************************************************************)
(* Sequential upload-processing queue of the document-ingestion backend:   *)
(* the upload_queue collection and its service (add_to_queue,              *)
(* remove_from_queue, _reorder_queue), the queue processor task            *)
(* (_process_queue, start_queue_processor), the document pipeline          *)
(* (DocumentProcessor.process_document and its vector-storage step), the   *)
(* admin remove-item endpoint, the startup recovery of the application     *)
(* lifespan, the broadcaster of document updates (DocumentEventsManager)   *)
(* with the per-document update stream, get_queue_stats and                *)
(* delete_document.                                                        *)
(*                                                                         *)
(* Every await of the source on a storage or external call is one step of  *)
(* the model: coroutines of one event loop interleave only at awaits, and  *)
(* a single-document storage operation is atomic.                          *)
(***************************************************************************)
EXTENDS Integers, Sequences, FiniteSets, TLC

\* ---------------------------------------------------------------- bounds
\* Documents uploaded in the interleaved specifications.
MaxDocs == 2
\* Documents of the specification of sequential queue operations.
SeqDocs == 4
\* Concurrent calls of the admin remove-item endpoint.
MaxAdmin == 1
\* Processor tasks ever created by start_queue_processor in one process.
MaxTasks == 2
\* Process starts after the first one.
MaxRestarts == 1
\* Chunks the chunker may return for one document.
MaxChunks == 2
\* External calls and storage operations that raise.
MaxFaults == 1
\* Times the clock advances.
MaxTicks == 1
\* Documents queued when the specification of the renumbering race starts.
RaceQueued == 3
\* Calls of start_queue_processor in one process.
MaxStartCalls == 3
\* Runs of the vector-storage step in its own specification.
MaxStoreRuns == 3
\* Streams (subscribers of the broadcaster) ever opened.
MaxStreams == 2
\* Direct calls of broadcast_update in the specification of the broadcaster.
MaxBroadcasts == 3
\* Documents of the specification of the streams.
StreamDocs == 2
\* Calls of get_queue_stats.
MaxStatsCalls == 2

\* ------------------------------------------------------ program constants
\* timedelta(minutes=30) of recover_orphaned_processes.
StaleMinutes == 30
\* len(text_content.strip()) < 10 of process_document.
MinTextLen == 10
\* min(25, ...) of the heartbeat of _extract_text_with_progress.
MaxHeartbeat == 25
\* batch_size = 100 of the upsert loop of _store_vectors.
BatchSize == 100

VARIABLES
    upload_queue,        \* db.upload_queue: document -> position, 0 = no item
    document_metadata,   \* db.document_metadata: document -> record
    temp_file,           \* temp_uploads/<document_id><ext> exists
    content,             \* what is fixed in advance about the file of a document
    faults,              \* external calls and storage operations that have raised
    vector_store,        \* Pinecone index: the set of vector ids <<document, chunk index>>
    store_runs,          \* history: the runs <<document, chunks>> of _store_vectors made one by one
    listeners,           \* DocumentEventsManager._listeners: document key -> set of queues
    channel,             \* the asyncio.Queue of each stream: sequence of updates
    stream,              \* event_generator / subscriber: id -> record
    broadcasts,          \* history: the direct calls of broadcast_update, in order
    stats,               \* the result of the latest get_queue_stats call, and the calls made
    deletion,            \* delete_document calls: document -> [pc, hard_delete]
    upload,              \* upload_document calls: document -> [pc, next_position]
    admin,               \* remove_from_queue endpoint calls: slot -> record
    task,                \* asyncio tasks running _process_queue: id -> record
    processor_task,      \* module global _processor_task: 0 = None, else task id
    lifespan,            \* position of the lifespan manager of the process
    now,                 \* datetime.now(UTC), in minutes
    restarts,            \* process starts after the first
    handed,              \* history: documents in the order process_document was called
    returned_before,     \* history: document -> uploads that had returned when its upload was called
    admin_target,        \* history: documents an admin remove-item call was issued for
    recovered,           \* outcome of recover_orphaned_processes in this process
    start_calls,         \* history: calls of start_queue_processor in this process
    start_returned,      \* history: task returned by the latest start_queue_processor call
    history              \* whether handed, returned_before and admin_target are recorded

vars == <<upload_queue, document_metadata, temp_file, content, faults,
          vector_store, store_runs, listeners, channel, stream, broadcasts,
          stats, deletion,
          upload, admin, task,
          processor_task, lifespan, now, restarts, handed, returned_before,
          admin_target, recovered, start_calls, start_returned, history>>

eventVars == <<listeners, stream, broadcasts>>
apiVars == <<stats, deletion>>
fileVars == <<content, faults, vector_store, store_runs, apiVars, channel, eventVars>>

Docs == DOMAIN upload_queue
AdminIds == 1..MaxAdmin
TaskIds == 1..MaxTasks
StreamIds == 1..MaxStreams

\* ------------------------------------------------------------ collections
\* A document_metadata record; processing_status "absent" = no record.
\* chunk_count -1 is None; error_message names which writer set it and
\* error_len is the length of the text it stored.
NoRecord ==
    [processing_status |-> "absent", processing_step |-> "none",
     processing_progress |-> 0, chunk_count |-> -1,
     error_message |-> "none", error_len |-> 0, upload_date |-> 0,
     deleted |-> FALSE]

\* update_one({"document_id": d}, {"$set": fields}): no upsert, so a
\* missing record stays missing.
UpdateOne(meta, d, fields) ==
    IF meta[d].processing_status = "absent" THEN meta
    ELSE [meta EXCEPT ![d] =
            [f \in DOMAIN meta[d] |->
                IF f \in DOMAIN fields THEN fields[f] ELSE meta[d][f]]]

\* delete_one({"document_id": d}) on document_metadata.
DeleteMetadata(meta, d) == [meta EXCEPT ![d] = NoRecord]

Queued(q) == {d \in DOMAIN q : q[d] # 0}

Max(S) == CHOOSE x \in S : \A y \in S : y <= x

\* find_one(sort=[("position", -1)]) and max_position["position"] + 1.
NextPosition(q) ==
    IF Queued(q) = {} THEN 1 ELSE Max({q[d] : d \in Queued(q)}) + 1

\* The items find_one({"status": "pending"}, sort=[("position", 1)]) can
\* return: with equal positions the store may return either item.
LowestPending(q) ==
    {d \in Queued(q) : \A e \in Queued(q) : q[d] <= q[e]}

\* collection.find().sort("position", 1).to_list(): the queued documents as
\* a list in position order; equal positions come in either order.
SortedItems(q) ==
    LET n == Cardinality(Queued(q)) IN
    {s \in [1..n -> Queued(q)] :
        /\ \A i, j \in 1..n : i # j => s[i] # s[j]
        /\ \A i, j \in 1..n : i < j => q[s[i]] <= q[s[j]]}

\* The update_one calls _reorder_queue issues for one snapshot, in order:
\* <<document, idx>> for each item whose snapshot position differs from idx.
RECURSIVE ReorderWritesFrom(_, _, _)
ReorderWritesFrom(q, s, i) ==
    IF i > Len(s) THEN <<>>
    ELSE IF q[s[i]] # i
         THEN <<[doc |-> s[i], idx |-> i]>> \o ReorderWritesFrom(q, s, i + 1)
         ELSE ReorderWritesFrom(q, s, i + 1)

ReorderWrites(q, s) == ReorderWritesFrom(q, s, 1)

\* update_one({"queue_id": ...}, {"$set": {"position": idx}}): an item that
\* was deleted meanwhile is not matched.
SetPosition(q, w) ==
    IF q[w.doc] = 0 THEN q ELSE [q EXCEPT ![w.doc] = w.idx]

RECURSIVE ApplyWrites(_, _)
ApplyWrites(q, ws) ==
    IF ws = <<>> THEN q ELSE ApplyWrites(SetPosition(q, Head(ws)), Tail(ws))

\* add_to_queue run to completion.
AddToQueue(q, d) == [q EXCEPT ![d] = NextPosition(q)]

\* Mutant: the renumbering pass after the deletion is left out.
RemoveWithoutReorder(q, d) == {[q EXCEPT ![d] = 0]}

\* remove_from_queue run to completion: delete_one, then _reorder_queue
\* when an item was deleted. The set of possible resulting queues.
RemoveFromQueue(q, d) ==
    IF q[d] = 0 THEN {q}
    ELSE LET q1 == [q EXCEPT ![d] = 0] IN
         {ApplyWrites(q1, ReorderWrites(q1, s)) : s \in SortedItems(q1)}

\* What a file holds decides what extraction and chunking make of it:
\* text_len is the length of the stripped text the extraction returns, -1
\* when every extraction method raises on the file; chunks is the number
\* of chunks _chunk_text returns for that text.
TextLens == {0, MinTextLen - 1, MinTextLen}

Contents ==
    {c \in [text_len : {-1} \cup TextLens, chunks : 0..MaxChunks] :
        c.text_len < MinTextLen => c.chunks = 0}

GoodContent == [text_len |-> MinTextLen, chunks |-> 1]

\* A file whose content a specification leaves open: any content, found
\* out when the pipeline reads the file.
AnyContent == [text_len |-> -2, chunks |-> 0]

\* What reading the file of document d can find.
Readings(d) == IF content[d] = AnyContent THEN Contents ELSE {content[d]}

\* A stream that was not opened yet. since, upto and status_at_open are
\* history: the number of direct broadcast_update calls made when the
\* subscriber subscribed and when its unsubscribe returned (-1: not yet),
\* and the processing_status of the document when the stream was opened.
StreamIdle == [pc |-> "idle", doc |-> 0, emitted |-> <<>>, since |-> 0,
               upto |-> -1, status_at_open |-> "none"]

\* No get_queue_stats call was made yet.
NoStats == [calls |-> 0, total |-> 0, pending |-> 0, processing |-> 0,
            completed |-> 0, failed |-> 0]

\* ------------------------------------------------------------------ init
\* The state when a process first starts on an empty database, for the
\* documents 1..n that will be uploaded.
InitFiles(n, h, c) ==
    /\ upload_queue = [d \in 1..n |-> 0]
    /\ document_metadata = [d \in 1..n |-> NoRecord]
    /\ temp_file = [d \in 1..n |-> FALSE]
    /\ content = c
    /\ faults = 0
    /\ vector_store = {}
    /\ store_runs = <<>>
    /\ stats = NoStats
    /\ deletion = [d \in DOMAIN upload_queue |-> [pc |-> "idle", hard_delete |-> FALSE]]
    /\ listeners = <<>>
    /\ channel = [s \in StreamIds |-> <<>>]
    /\ stream = [s \in StreamIds |-> StreamIdle]
    /\ broadcasts = <<>>
    /\ upload = [d \in 1..n |-> [pc |-> "idle", next_position |-> 0]]
    /\ admin = [a \in AdminIds |-> [pc |-> "idle", item |-> 0, writes |-> <<>>]]
    /\ task = [t \in TaskIds |->
                 [pc |-> "none", item |-> 0, writes |-> <<>>, chunks |-> 0,
                  embeddings |-> 0, last_progress |-> 0,
                  estimated_progress |-> 0, extracted |-> FALSE, error |-> 0,
                  cancel |-> FALSE]]
    /\ processor_task = 0
    /\ lifespan = "recover"
    /\ now = 0
    /\ restarts = 0
    /\ handed = <<>>
    /\ returned_before = [d \in 1..n |-> {}]
    /\ admin_target = {}
    /\ recovered = "pending"
    /\ start_calls = 0
    /\ start_returned = 0
    /\ history = h

InitWith(n, h) == InitFiles(n, h, [d \in 1..n |-> AnyContent])

\* ------------------------------------------- sequential queue operations
\* Queue operations executed one at a time, each running to completion.
SeqEnqueue(d) ==
    /\ upload[d].pc = "idle"
    /\ upload' = [upload EXCEPT ![d] = [pc |-> "done",
                                        next_position |-> NextPosition(upload_queue)]]
    /\ upload_queue' = AddToQueue(upload_queue, d)
    /\ UNCHANGED <<document_metadata, temp_file, content, admin, task, processor_task, lifespan,
                   now, restarts, handed, returned_before, admin_target,
                   recovered, start_calls, start_returned, history, faults,
                   vector_store, store_runs, apiVars, channel,
                   eventVars>>

SeqRemove(d) ==
    /\ upload_queue[d] # 0
    /\ upload_queue' \in RemoveFromQueue(upload_queue, d)
    /\ UNCHANGED <<document_metadata, temp_file, upload, admin, task,
                   processor_task, lifespan, now, restarts, handed,
                   returned_before, admin_target, recovered, start_calls,
                   start_returned, history, fileVars>>

InitSeq == InitWith(SeqDocs, FALSE)

NextSeq ==
    \/ \E d \in Docs : SeqEnqueue(d)
    \/ \E d \in Docs : SeqRemove(d)

SpecSeq == InitSeq /\ [][NextSeq]_vars

\* ----------------------------------------------------------------- C1
DensePositions(q) ==
    /\ {q[d] : d \in Queued(q)} = 1..Cardinality(Queued(q))
    /\ \A d, e \in Queued(q) : d # e => q[d] # q[e]

OrderKept ==
    \A d, e \in Queued(upload_queue) \cap Queued(upload_queue') :
        upload_queue[d] < upload_queue[e] => upload_queue'[d] < upload_queue'[e]

\* C1: after any sequence of enqueue and remove operations, each run to
\* completion, the positions of the queued items are exactly 1..N without
\* duplicate or gap, and the items that remain keep their relative order.
C1_DenseOrderedQueue ==
    /\ [](DensePositions(upload_queue))
    /\ [][OrderKept]_vars

\* Three documents were enqueued, the middle one was removed and the two
\* others were renumbered to 1 and 2.
C1_Witness ==
    \E a, b, c \in Docs :
        /\ upload[a].next_position = 1 /\ upload[b].next_position = 2
        /\ upload[c].next_position = 3
        /\ upload_queue[a] = 1 /\ upload_queue[b] = 0 /\ upload_queue[c] = 2

\* ======================================================================
\* The interleaved program: one step per await.
\* ======================================================================
histVars == <<handed, returned_before, admin_target, history>>
procVars == <<task, processor_task, start_calls, start_returned>>
lifeVars == <<lifespan, now, restarts, recovered>>

\* -------------------------------------------------------- upload_document
\* upload_document up to the find_one of add_to_queue: the file is written
\* to temp_uploads and the highest position is read. Document ids are fresh
\* uuids, so the calls are numbered in the order they are made.
UploadCall(d) ==
    /\ lifespan = "serving"
    /\ upload[d].pc = "idle"
    /\ \A e \in Docs : e < d => upload[e].pc # "idle"
    /\ temp_file' = [temp_file EXCEPT ![d] = TRUE]
    /\ upload' = [upload EXCEPT ![d] =
                    [pc |-> "insert", next_position |-> NextPosition(upload_queue)]]
    /\ returned_before' =
          IF history
          THEN [returned_before EXCEPT ![d] = {e \in Docs : upload[e].pc = "done"}]
          ELSE returned_before
    /\ UNCHANGED <<upload_queue, document_metadata, admin, procVars, lifeVars,
                   handed, admin_target, history, fileVars>>

\* insert_one of add_to_queue; the call then returns the queue position.
UploadInsert(d) ==
    /\ upload[d].pc = "insert"
    /\ upload_queue' = [upload_queue EXCEPT ![d] = upload[d].next_position]
    /\ upload' = [upload EXCEPT ![d].pc = "done"]
    /\ UNCHANGED <<document_metadata, temp_file, admin, procVars, lifeVars,
                   histVars, fileVars>>

\* ------------------------------------- DELETE /queue/{queue_id} endpoint
\* (POST /queue/clear performs, for each item of one get_queue snapshot,
\* the same three deletions in the same order; it is not modelled apart.)
\* get_queue_item: a missing item answers 404 and changes nothing; every
\* item has status "pending", so the status check passes.
AdminGetItem(a, d) ==
    /\ lifespan = "serving"
    /\ admin[a].pc = "idle"
    /\ upload_queue[d] # 0
    /\ admin' = [admin EXCEPT ![a] = [pc |-> "delete_metadata", item |-> d,
                                      writes |-> <<>>]]
    /\ admin_target' = IF history THEN admin_target \cup {d} ELSE admin_target
    /\ UNCHANGED <<upload_queue, document_metadata, temp_file, upload,
                   procVars, lifeVars, handed, returned_before, history,
                   fileVars>>

\* db.document_metadata.delete_one for the item's document.
AdminDeleteMetadata(a) ==
    /\ admin[a].pc = "delete_metadata"
    /\ document_metadata' = DeleteMetadata(document_metadata, admin[a].item)
    /\ admin' = [admin EXCEPT ![a].pc = "delete_file"]
    /\ UNCHANGED <<upload_queue, temp_file, upload, procVars, lifeVars,
                   histVars, fileVars>>

\* os.remove of the item's file if it exists.
AdminDeleteFile(a) ==
    /\ admin[a].pc = "delete_file"
    /\ temp_file' = [temp_file EXCEPT ![admin[a].item] = FALSE]
    /\ admin' = [admin EXCEPT ![a].pc = "delete_item"]
    /\ UNCHANGED <<upload_queue, document_metadata, upload, procVars,
                   lifeVars, histVars, fileVars>>

\* delete_one of remove_from_queue: nothing deleted returns False and the
\* endpoint answers 500.
AdminDeleteItem(a) ==
    /\ admin[a].pc = "delete_item"
    /\ IF upload_queue[admin[a].item] # 0
       THEN /\ upload_queue' = [upload_queue EXCEPT ![admin[a].item] = 0]
            /\ admin' = [admin EXCEPT ![a].pc = "reorder_find"]
       ELSE /\ admin' = [admin EXCEPT ![a] = [pc |-> "idle", item |-> 0,
                                              writes |-> <<>>]]
            /\ UNCHANGED upload_queue
    /\ UNCHANGED <<document_metadata, temp_file, upload, procVars, lifeVars,
                   histVars, fileVars>>

\* find().sort("position", 1).to_list() of _reorder_queue.
AdminReorderFind(a) ==
    /\ admin[a].pc = "reorder_find"
    /\ \E s \in SortedItems(upload_queue) :
         LET ws == ReorderWrites(upload_queue, s) IN
         admin' = [admin EXCEPT ![a] =
                     IF ws = <<>>
                     THEN [pc |-> "idle", item |-> 0, writes |-> <<>>]
                     ELSE [pc |-> "reorder_update", item |-> admin[a].item,
                           writes |-> ws]]
    /\ UNCHANGED <<upload_queue, document_metadata, temp_file, upload,
                   procVars, lifeVars, histVars, fileVars>>

\* One update_one of the loop of _reorder_queue.
AdminReorderUpdate(a) ==
    /\ admin[a].pc = "reorder_update"
    /\ upload_queue' = SetPosition(upload_queue, Head(admin[a].writes))
    /\ admin' = [admin EXCEPT ![a] =
                   IF Tail(admin[a].writes) = <<>>
                   THEN [pc |-> "idle", item |-> 0, writes |-> <<>>]
                   ELSE [pc |-> "reorder_update", item |-> admin[a].item,
                         writes |-> Tail(admin[a].writes)]]
    /\ UNCHANGED <<document_metadata, temp_file, upload, procVars, lifeVars,
                   histVars, fileVars>>

\* ------------------------------------------------ DocumentEventsManager
\* The lock of the manager is only held between two awaits of one
\* coroutine, so subscribe, unsubscribe and broadcast_update never wait
\* for it and each runs in one step.
\* self._listeners.get(document_id, set()).
Subscribers(ls, d) == IF d \in DOMAIN ls THEN ls[d] ELSE {}

\* subscribe: the key is created if missing and the new queue s is added.
SubscribeTo(ls, d, s) ==
    [e \in DOMAIN ls \cup {d} |->
        IF e = d THEN Subscribers(ls, d) \cup {s} ELSE ls[e]]

\* Mutant: unsubscribe leaves the queue registered.
UnsubscribeKeeps(ls, d, s) == ls

\* unsubscribe: the queue is discarded, and the key with it when no queue
\* is left.
UnsubscribeFrom(ls, d, s) ==
    IF d \notin DOMAIN ls THEN ls
    ELSE IF ls[d] \ {s} = {} THEN [e \in DOMAIN ls \ {d} |-> ls[e]]
    ELSE [ls EXCEPT ![d] = @ \ {s}]

\* The update dict broadcast_progress builds; -1 is a missing progress.
Update(d, status, progress) ==
    [document_id |-> d, processing_status |-> status,
     processing_progress |-> progress]

\* update['timestamp'] = datetime.utcnow().isoformat().
Stamp(u, ts) == u @@ ("timestamp" :> ts)

\* Mutant: every queue of the manager receives the update.
BroadcastToAll(ls, ch, d, u, ts) ==
    [s \in StreamIds |->
        IF \E e \in DOMAIN ls : s \in ls[e] THEN Append(ch[s], Stamp(u, ts))
        ELSE ch[s]]

\* broadcast_update: the channels after the call. Without listeners the
\* call returns at once; else the stamped update is put, with put_nowait,
\* on the queue of every listener of the document (the queues are
\* unbounded: put_nowait does not raise QueueFull).
Broadcast(ls, ch, d, u, ts) ==
    [s \in StreamIds |->
        IF s \in Subscribers(ls, d) THEN Append(ch[s], Stamp(u, ts))
        ELSE ch[s]]

\* Mutant: the first failing put_nowait ends the loop over the listeners.
BroadcastStopsAtDead(ls, ch, d, u, ts, dead) ==
    IF dead # {} THEN ch
    ELSE [s \in StreamIds |->
            IF s \in Subscribers(ls, d) THEN Append(ch[s], Stamp(u, ts))
            ELSE ch[s]]

\* broadcast_update when put_nowait raises another exception on the queues
\* in dead: the other listeners receive the update.
BroadcastBut(ls, ch, d, u, ts, dead) ==
    [s \in StreamIds |->
        IF s \in Subscribers(ls, d) \ dead THEN Append(ch[s], Stamp(u, ts))
        ELSE ch[s]]

\* "Clean up dead queues": each is discarded from the set of the document;
\* the key of the document stays.
DiscardDead(ls, d, dead) ==
    IF d \notin DOMAIN ls THEN ls
    ELSE [ls EXCEPT ![d] = @ \ dead]

\* The channels after a task has broadcast u for d, which a cancelled task
\* does not do.
TaskBroadcast(t, d, u) ==
    IF task[t].cancel THEN channel
    ELSE Broadcast(listeners, channel, d, u, now)

\* ------------------------------------------------- _process_queue (task)
\* A task that has ended (cancelled), and one that was never created.
TaskDone == [pc |-> "done", item |-> 0, writes |-> <<>>, chunks |-> 0,
             embeddings |-> 0, last_progress |-> 0, estimated_progress |-> 0,
             extracted |-> FALSE, error |-> 0, cancel |-> FALSE]
TaskNone == [pc |-> "none", item |-> 0, writes |-> <<>>, chunks |-> 0,
             embeddings |-> 0, last_progress |-> 0, estimated_progress |-> 0,
             extracted |-> FALSE, error |-> 0, cancel |-> FALSE]

\* Mutant: a handler of the loop swallows the CancelledError and the loop
\* goes on.
GotoSwallowsCancel(t, pc, item, writes, chunks) ==
    [task EXCEPT ![t] =
        [pc |-> pc, item |-> item, writes |-> writes, chunks |-> chunks,
         embeddings |-> 0, last_progress |-> 0, estimated_progress |-> 0,
         extracted |-> FALSE, error |-> 0, cancel |-> FALSE]]

\* The task after the operation it was awaiting: task.cancel() throws
\* CancelledError into the task at its current await, which no handler of
\* _process_queue or process_document catches (they catch Exception, and
\* the CancelledError handler re-raises), so a cancelled task ends there;
\* the operation already under way may still take effect.
Goto(t, pc, item, writes, chunks) ==
    [task EXCEPT ![t] =
        IF task[t].cancel THEN TaskDone
        ELSE [pc |-> pc, item |-> item, writes |-> writes, chunks |-> chunks,
              embeddings |-> 0, last_progress |-> 0, estimated_progress |-> 0,
         extracted |-> FALSE, error |-> 0, cancel |-> FALSE]]

GotoPc(t, pc) == Goto(t, pc, task[t].item, task[t].writes, task[t].chunks)

\* The lengths of the fixed messages: of the ValueError for a text that is
\* too short, for an empty list of chunks, and for a count of embeddings
\* that differs from the count of chunks (counts of one digit), and of the
\* error_message of recover_orphaned_processes.
NoTextLen == 39
NoChunksLen == 36
MismatchLen == 49
RecoveryLen == 72

\* The cut of the loop's handler: str(e)[:500].
MaxErrorLen == 500

\* Lengths of str(e) for an exception whose text comes from a library or a
\* service (extraction, embedding, vector store, storage): at the cut and
\* just over it.
ErrorLens == {MaxErrorLen, MaxErrorLen + 1}

\* s[:MaxErrorLen] of a text of length n.
Truncate(n) == IF n > MaxErrorLen THEN MaxErrorLen ELSE n

\* An exception whose text has length n is raised inside the try of
\* process_document: its except handler runs next.
Raise(t, n) ==
    [GotoPc(t, "pd_fail") EXCEPT ![t].error = IF task[t].cancel THEN 0 ELSE n]

\* The process_document call of a task is under way.
PipelinePcs == {"pd_start", "pd_extract", "pd_heartbeat", "pd_chunking",
                "pd_progress50", "pd_embed", "pd_progress80", "pd_store", "pd_complete",
                "pd_fail"}
InPipeline(t) == task[t].pc \in PipelinePcs

\* find_one({"status": "pending"}, sort=[("position", 1)]); without an item
\* the loop sleeps 2 seconds.
ProcessorFind(t) ==
    /\ task[t].pc = "find"
    /\ IF Queued(upload_queue) = {}
       THEN task' = GotoPc(t, "sleep")
       ELSE \E d \in LowestPending(upload_queue) :
                task' = Goto(t, "delete", d, <<>>, 0)
    /\ UNCHANGED <<upload_queue, document_metadata, temp_file, upload, admin,
                   processor_task, start_calls, start_returned, lifeVars,
                   histVars, fileVars>>

\* asyncio.sleep of the loop: 2 s when idle, 1 s between items, 5 s after
\* an unexpected error; the loop then polls again.
ProcessorSleep(t) ==
    /\ task[t].pc = "sleep"
    /\ task' = Goto(t, "find", 0, <<>>, 0)
    /\ UNCHANGED <<upload_queue, document_metadata, temp_file, upload, admin,
                   processor_task, start_calls, start_returned, lifeVars,
                   histVars, fileVars>>

\* Mutant: the loop goes on to the metadata insert without removing the
\* item from the queue.
ProcessorDeleteKeepsItem(t) ==
    /\ task[t].pc = "delete"
    /\ task' = GotoPc(t, "insert")
    /\ UNCHANGED <<upload_queue, document_metadata, temp_file, upload, admin,
                   processor_task, start_calls, start_returned, lifespan, now,
                   restarts, recovered, handed, returned_before, admin_target,
                   history, content, faults, vector_store, store_runs, apiVars, channel,
                   eventVars>>

\* delete_one of remove_from_queue(next_item.queue_id); its result is not
\* looked at by the loop.
ProcessorDelete(t) ==
    /\ task[t].pc = "delete"
    /\ IF upload_queue[task[t].item] # 0
       THEN /\ upload_queue' = [upload_queue EXCEPT ![task[t].item] = 0]
            /\ task' = GotoPc(t, "reorder_find")
       ELSE /\ task' = GotoPc(t, "insert")
            /\ UNCHANGED upload_queue
    /\ UNCHANGED <<document_metadata, temp_file, upload, admin,
                   processor_task, start_calls, start_returned, lifeVars,
                   histVars, fileVars>>

ProcessorReorderFind(t) ==
    /\ task[t].pc = "reorder_find"
    /\ \E s \in SortedItems(upload_queue) :
         LET ws == ReorderWrites(upload_queue, s) IN
         task' = Goto(t, IF ws = <<>> THEN "insert" ELSE "reorder_update",
                      task[t].item, ws, 0)
    /\ UNCHANGED <<upload_queue, document_metadata, temp_file, upload, admin,
                   processor_task, start_calls, start_returned, lifeVars,
                   histVars, fileVars>>

ProcessorReorderUpdate(t) ==
    /\ task[t].pc = "reorder_update"
    /\ upload_queue' = SetPosition(upload_queue, Head(task[t].writes))
    /\ task' = Goto(t, IF Tail(task[t].writes) = <<>> THEN "insert"
                       ELSE "reorder_update",
                    task[t].item, Tail(task[t].writes), 0)
    /\ UNCHANGED <<document_metadata, temp_file, upload, admin,
                   processor_task, start_calls, start_returned, lifeVars,
                   histVars, fileVars>>

\* The record DocumentMetadataModel(... processing_status="processing") of
\* the loop, with upload_date = datetime.now(UTC).
NewMetadata(t) ==
    [processing_status |-> "processing", processing_step |-> "none",
     processing_progress |-> -1, chunk_count |-> -1,
     error_message |-> "none", error_len |-> 0, upload_date |-> t,
     deleted |-> FALSE]

\* insert_one into document_metadata (unique index on document_id: a
\* second record raises, and the catch-all of the loop sleeps and polls
\* again); then the "processing" broadcast, which never suspends, and the
\* call of process_document.
ProcessorInsert(t) ==
    /\ task[t].pc = "insert"
    /\ LET d == task[t].item IN
       IF document_metadata[d].processing_status = "absent"
       THEN /\ document_metadata' =
                  [document_metadata EXCEPT ![d] = NewMetadata(now)]
            /\ task' = GotoPc(t, "pd_start")
            /\ handed' = IF history /\ ~task[t].cancel
                         THEN Append(handed, d) ELSE handed
            /\ channel' = TaskBroadcast(t, d, Update(d, "processing", -1))
       ELSE /\ task' = Goto(t, "sleep", 0, <<>>, 0)
            /\ UNCHANGED <<document_metadata, handed, channel>>
    /\ UNCHANGED <<upload_queue, temp_file, upload, admin, processor_task,
                   start_calls, start_returned, lifeVars, returned_before,
                   admin_target, history, content, faults, vector_store,
                   store_runs, apiVars, eventVars>>

\* ------------------------------------------------------- _store_vectors
Min(a, b) == IF a <= b THEN a ELSE b

\* Mutant: the id of a vector differs from one run of the step to the next.
VectorIdPerRun(d, idx) == <<d, idx, Len(store_runs)>>

\* vector_id = f"{document_id}_chunk{idx}".
VectorId(d, idx) == <<d, idx>>

\* Mutant: a batch without its last vector.
BatchSkipsLast(d, n, i) ==
    {VectorId(d, idx) : idx \in i..(Min(i + BatchSize, n) - 2)}

\* The batch vectors[i:i + batch_size] of n vectors of document d.
Batch(d, n, i) == {VectorId(d, idx) : idx \in i..(Min(i + BatchSize, n) - 1)}

\* The starts range(0, len(vectors), batch_size) of the batches.
BatchStarts(n) == {i \in 0..(n - 1) : i % BatchSize = 0}

\* index.upsert: a vector whose id is stored is overwritten.
Upsert(store, batch) == store \cup batch

\* The upsert loop of _store_vectors from batch start i on, for n vectors;
\* the upsert of the batch that starts at fail_at (-1: none) raises, and
\* the loop ends there.
RECURSIVE UpsertBatches(_, _, _, _, _)
UpsertBatches(store, d, n, i, fail_at) ==
    IF i >= n \/ i = fail_at THEN store
    ELSE UpsertBatches(Upsert(store, Batch(d, n, i)), d, n, i + BatchSize,
                       fail_at)

\* Mutant: the two lengths are compared after the upserts.
StoreVectorsChecksLast(store, d, n, m, fail_at) ==
    IF n # m THEN [store |-> UpsertBatches(store, d, n, 0, -1), raised |-> TRUE]
    ELSE [store |-> UpsertBatches(store, d, n, 0, fail_at),
          raised |-> fail_at # -1]

\* _store_vectors for n chunks and m embeddings: a mismatch raises before
\* anything is upserted. [store, raised].
StoreVectors(store, d, n, m, fail_at) ==
    IF n # m THEN [store |-> store, raised |-> TRUE]
    ELSE [store |-> UpsertBatches(store, d, n, 0, fail_at),
          raised |-> fail_at # -1]

\* The vectors of document d in the vector store.
VectorsOf(d) == {v \in vector_store : v[1] = d}

\* The task keeps its locals and moves to pc.
Step(t, pc) ==
    [task EXCEPT ![t] = IF task[t].cancel THEN TaskDone
                        ELSE [@ EXCEPT !.pc = pc]]

\* ----------------------------------- DocumentProcessor.process_document
pdUnchanged == <<upload_queue, upload, admin, processor_task, start_calls,
                 start_returned, lifeVars, histVars, content, store_runs, apiVars,
                 eventVars>>

\* First update_one of process_document, and the broadcast after it.
PipelineStart(t) ==
    /\ task[t].pc = "pd_start"
    /\ document_metadata' = UpdateOne(document_metadata, task[t].item,
            [processing_status |-> "processing",
             processing_step |-> "extracting_text",
             processing_progress |-> 0])
    /\ task' = GotoPc(t, "pd_extract")
    /\ channel' = TaskBroadcast(t, task[t].item,
                                Update(task[t].item, "processing", 0))
    /\ UNCHANGED <<temp_file, faults, pdUnchanged, vector_store>>

\* The check of process_document on the extracted text.
TextAccepted(len) == ~(len < MinTextLen)

\* The values int((elapsed / 180) * 30), capped, that the heartbeat of
\* _extract_text_with_progress computes 15 s after the start and late on.
HeartbeatEstimates == {(15 * 30) \div 180, MaxHeartbeat}

\* Mutant: every estimate is written, also one not above last_progress.
PipelineHeartbeatSleepAnyEstimate(t) ==
    /\ task[t].pc = "pd_extract"
    /\ ~task[t].extracted
    /\ \E p \in HeartbeatEstimates, done \in BOOLEAN :
         /\ task' = [task EXCEPT ![t] =
                       IF task[t].cancel THEN TaskDone
                       ELSE [@ EXCEPT !.pc = "pd_heartbeat",
                                      !.estimated_progress = p,
                                      !.extracted = done]]
    /\ UNCHANGED <<document_metadata, temp_file, faults, pdUnchanged,
                   vector_store, channel>>

\* The loop of _extract_text_with_progress found the extraction thread not
\* done and awaits asyncio.sleep(15), during which the thread goes on or
\* finishes (extracted); after the sleep the estimate is computed and, when
\* it is above last_progress, the round goes on to its update_one without
\* another look at the thread.
PipelineHeartbeatSleep(t) ==
    /\ task[t].pc = "pd_extract"
    /\ ~task[t].extracted
    /\ \E p \in HeartbeatEstimates, done \in BOOLEAN :
         /\ p > task[t].last_progress
         /\ task' = [task EXCEPT ![t] =
                       IF task[t].cancel THEN TaskDone
                       ELSE [@ EXCEPT !.pc = "pd_heartbeat",
                                      !.estimated_progress = p,
                                      !.extracted = done]]
    /\ UNCHANGED <<document_metadata, temp_file, faults, pdUnchanged,
                   vector_store, channel>>

\* The rest of a round of the heartbeat loop: the estimate is written with
\* update_one and broadcast, and the loop looks at the thread again.
PipelineHeartbeat(t) ==
    /\ task[t].pc = "pd_heartbeat"
    /\ LET p == task[t].estimated_progress IN
         /\ document_metadata' = UpdateOne(document_metadata, task[t].item,
                 [processing_progress |-> p])
         /\ task' = [task EXCEPT ![t] =
                       IF task[t].cancel THEN TaskDone
                       ELSE [@ EXCEPT !.pc = "pd_extract",
                                      !.last_progress = p,
                                      !.estimated_progress = 0]]
         /\ channel' = TaskBroadcast(t, task[t].item,
                                     Update(task[t].item, "processing", p))
    /\ UNCHANGED <<temp_file, faults, pdUnchanged, vector_store>>

\* The loop of _extract_text_with_progress finds the extraction thread
\* done and the result is awaited; the fallback _extract_text when it
\* raises, and the check of the text. Extraction raises when the file is missing
\* (FileNotFoundError in both methods) or unreadable.
PipelineExtract(t) ==
    /\ task[t].pc = "pd_extract"
    /\ LET d == task[t].item IN
       \E c \in Readings(d) :
         IF temp_file[d] /\ c.text_len >= 0
         THEN task' = IF TextAccepted(c.text_len)
                      THEN GotoPc(t, "pd_chunking")
                      ELSE Raise(t, NoTextLen)
         ELSE \E n \in ErrorLens : task' = Raise(t, n)
    /\ UNCHANGED <<document_metadata, temp_file, faults, pdUnchanged, vector_store, channel>>

\* update_one to step "chunking", progress 30; _chunk_text runs before the
\* next await.
PipelineChunking(t) ==
    /\ task[t].pc = "pd_chunking"
    /\ document_metadata' = UpdateOne(document_metadata, task[t].item,
            [processing_step |-> "chunking", processing_progress |-> 30])
    /\ \E c \in Readings(task[t].item) :
         /\ c.text_len >= 0 /\ TextAccepted(c.text_len)
         /\ task' = Goto(t, "pd_progress50", task[t].item, <<>>, c.chunks)
    /\ UNCHANGED <<temp_file, faults, pdUnchanged, vector_store, channel>>

\* Mutant: an empty list of chunks passes.
NoChunksNever(n) == FALSE

\* "if not chunks" of process_document.
NoChunks(n) == n = 0

\* update_one to step "generating_embeddings", progress 50; no chunk
\* raises ValueError.
PipelineProgress50(t) ==
    /\ task[t].pc = "pd_progress50"
    /\ document_metadata' = UpdateOne(document_metadata, task[t].item,
            [processing_step |-> "generating_embeddings",
             processing_progress |-> 50])
    /\ task' = IF NoChunks(task[t].chunks) THEN Raise(t, NoChunksLen)
                ELSE GotoPc(t, "pd_embed")
    /\ UNCHANGED <<temp_file, faults, pdUnchanged, vector_store, channel>>

\* _generate_embeddings_batch: the service returns one embedding per
\* chunk, or raises, or returns a list one short.
PipelineEmbed(t) ==
    /\ task[t].pc = "pd_embed"
    /\ \/ /\ task' = [task EXCEPT ![t] =
                        IF task[t].cancel THEN TaskDone
                        ELSE [@ EXCEPT !.pc = "pd_progress80",
                                       !.embeddings = task[t].chunks]]
          /\ UNCHANGED faults
       \/ /\ faults < MaxFaults
          /\ faults' = faults + 1
          /\ \/ \E n \in ErrorLens : task' = Raise(t, n)
             \/ task' = [task EXCEPT ![t] =
                           IF task[t].cancel THEN TaskDone
                           ELSE [@ EXCEPT !.pc = "pd_progress80",
                                          !.embeddings = task[t].chunks - 1]]
    /\ UNCHANGED <<document_metadata, temp_file, pdUnchanged, vector_store, channel>>

\* update_one to step "storing_vectors", progress 80.
PipelineProgress80(t) ==
    /\ task[t].pc = "pd_progress80"
    /\ document_metadata' = UpdateOne(document_metadata, task[t].item,
            [processing_step |-> "storing_vectors",
             processing_progress |-> 80])
    /\ task' = Step(t, "pd_store")
    /\ UNCHANGED <<temp_file, faults, pdUnchanged, vector_store, channel>>

\* _store_vectors: the check of the two lengths, then the upsert loop, in
\* which an upsert may raise. (A document of the interleaved
\* specifications has at most MaxChunks < BatchSize chunks, so the loop is
\* one upsert, one await.)
PipelineStore(t) ==
    /\ task[t].pc = "pd_store"
    /\ LET d == task[t].item
           n == task[t].chunks
           m == task[t].embeddings
       IN \/ /\ LET r == StoreVectors(vector_store, d, n, m, -1) IN
                   /\ vector_store' = r.store
                   /\ task' = IF r.raised THEN Raise(t, MismatchLen)
                              ELSE Step(t, "pd_complete")
             /\ UNCHANGED faults
          \/ /\ n = m
             /\ faults < MaxFaults
             /\ faults' = faults + 1
             /\ \E i \in BatchStarts(n) :
                  vector_store' = StoreVectors(vector_store, d, n, m, i).store
             /\ \E e \in ErrorLens : task' = Raise(t, e)
    /\ UNCHANGED <<document_metadata, temp_file, pdUnchanged, channel>>

\* Mutant: an error of the removal of the temp file, after the broadcast of
\* "completed", reaches the except handler of process_document.
PipelineCompleteCleanupRaises(t) ==
    /\ task[t].pc = "pd_complete"
    /\ document_metadata' = UpdateOne(document_metadata, task[t].item,
            [processing_status |-> "completed",
             chunk_count |-> task[t].chunks])
    /\ channel' = TaskBroadcast(t, task[t].item,
                                Update(task[t].item, "completed", 100))
    /\ task' = Raise(t, MaxErrorLen)
    /\ UNCHANGED <<temp_file, faults, pdUnchanged, vector_store>>

\* update_one to "completed" with chunk_count; then the broadcast, the
\* removal of the temp file and the return to the loop, which sleeps 1 s.
PipelineComplete(t) ==
    /\ task[t].pc = "pd_complete"
    /\ document_metadata' = UpdateOne(document_metadata, task[t].item,
            [processing_status |-> "completed",
             chunk_count |-> task[t].chunks])
    /\ temp_file' = IF task[t].cancel THEN temp_file
                    ELSE [temp_file EXCEPT ![task[t].item] = FALSE]
    /\ channel' = TaskBroadcast(t, task[t].item,
                                Update(task[t].item, "completed", 100))
    /\ task' = Goto(t, "sleep", 0, <<>>, 0)
    /\ UNCHANGED <<faults, pdUnchanged, vector_store>>

\* Mutant: a failure of the pipeline ends the task that ran it.
PipelineFailEndsTask(t) ==
    /\ task[t].pc = "pd_fail"
    /\ document_metadata' = UpdateOne(document_metadata, task[t].item,
            [processing_status |-> "failed", error_message |-> "pipeline",
             error_len |-> task[t].error])
    /\ task' = [task EXCEPT ![t] = TaskDone]
    /\ UNCHANGED <<temp_file, faults, upload_queue, upload, admin,
                   processor_task, start_calls, start_returned, lifespan, now,
                   restarts, recovered, handed, returned_before, admin_target,
                   history, content, vector_store, store_runs, apiVars, channel,
                   eventVars>>

\* The except handler of process_document: update_one to "failed" with
\* str(e), the broadcast, the removal of the temp file, and the return of
\* the failure result. When the update_one itself raises, the exception
\* leaves process_document and the loop's handler runs.
PipelineFail(t) ==
    /\ task[t].pc = "pd_fail"
    /\ \/ /\ document_metadata' = UpdateOne(document_metadata, task[t].item,
                  [processing_status |-> "failed",
                   error_message |-> "pipeline",
                   error_len |-> task[t].error])
          /\ temp_file' = IF task[t].cancel THEN temp_file
                          ELSE [temp_file EXCEPT ![task[t].item] = FALSE]
          /\ channel' = TaskBroadcast(t, task[t].item,
                                      Update(task[t].item, "failed", -1))
          /\ task' = Goto(t, "sleep", 0, <<>>, 0)
          /\ UNCHANGED faults
       \/ /\ faults < MaxFaults
          /\ faults' = faults + 1
          /\ \E n \in ErrorLens :
               task' = [GotoPc(t, "fail_write") EXCEPT
                          ![t].error = IF task[t].cancel THEN 0 ELSE n]
          /\ UNCHANGED <<document_metadata, temp_file, channel>>
    /\ UNCHANGED <<pdUnchanged, vector_store>>

\* The handler of the loop for an exception of process_document:
\* update_one to "failed" with str(e)[:500]; a failure of this write is
\* logged. The loop then sleeps 1 s.
ProcessorFailWrite(t) ==
    /\ task[t].pc = "fail_write"
    /\ \/ /\ document_metadata' = UpdateOne(document_metadata, task[t].item,
                  [processing_status |-> "failed",
                   error_message |-> "processor",
                   error_len |-> Truncate(task[t].error)])
          /\ UNCHANGED faults
       \/ /\ faults < MaxFaults
          /\ faults' = faults + 1
          /\ UNCHANGED document_metadata
    /\ task' = Goto(t, "sleep", 0, <<>>, 0)
    /\ UNCHANGED <<temp_file, pdUnchanged, vector_store, channel>>

\* Mutant: an exception of the loop body ends the task.
ProcessorStorageErrorEndsTask(t) ==
    /\ task[t].pc \in {"find", "delete", "reorder_find", "reorder_update",
                       "insert"}
    /\ faults < MaxFaults
    /\ faults' = faults + 1
    /\ task' = [task EXCEPT ![t] = TaskDone]
    /\ UNCHANGED <<document_metadata, temp_file, pdUnchanged, vector_store, channel>>

\* A storage operation of the loop body (find_one, delete_one, the find or
\* an update_one of _reorder_queue, insert_one) raises: the catch-all
\* handler of the loop logs it, sleeps 5 s and the loop polls again.
ProcessorStorageError(t) ==
    /\ task[t].pc \in {"find", "delete", "reorder_find", "reorder_update",
                       "insert"}
    /\ faults < MaxFaults
    /\ faults' = faults + 1
    /\ task' = Goto(t, "sleep", 0, <<>>, 0)
    /\ UNCHANGED <<document_metadata, temp_file, pdUnchanged, vector_store, channel>>

\* ------------------------------------------------ start_queue_processor
\* Mutant: the guard never finds a running task.
ProcessorNeverRunning == FALSE

\* The guard of start_queue_processor: a task exists and is not done().
ProcessorRunning ==
    processor_task # 0 /\ task[processor_task].pc # "done"

\* Mutant: every call creates a task.
StartAlwaysCreates ==
    /\ start_calls' = start_calls + 1
    /\ \E t \in TaskIds :
         /\ task[t].pc = "none"
         /\ \A u \in TaskIds : u < t => task[u].pc # "none"
         /\ task' = [task EXCEPT ![t].pc = "find"]
         /\ processor_task' = t
         /\ start_returned' = t

\* start_queue_processor: returns the running task, or creates a task
\* running _process_queue and stores it in _processor_task. There is no
\* await between the test and create_task.
StartQueueProcessor ==
    /\ start_calls' = start_calls + 1
    /\ IF ProcessorRunning
       THEN /\ start_returned' = processor_task
            /\ UNCHANGED <<task, processor_task>>
       ELSE \E t \in TaskIds :
              /\ task[t].pc = "none"
              /\ \A u \in TaskIds : u < t => task[u].pc # "none"
              /\ task' = [task EXCEPT ![t].pc = "find"]
              /\ processor_task' = t
              /\ start_returned' = t

\* CancelledError thrown into a cancelled task at its await: the task ends.
TaskCancelled(t) ==
    /\ task[t].cancel
    /\ task[t].pc \notin {"none", "done"}
    /\ task' = [task EXCEPT ![t] = TaskDone]
    /\ UNCHANGED <<upload_queue, document_metadata, temp_file, upload, admin,
                   processor_task, start_calls, start_returned, lifeVars,
                   histVars, fileVars>>

\* task.cancel() on the stored task, when it is not done().
CancelProcessorTask ==
    IF ProcessorRunning
    THEN [task EXCEPT ![processor_task].cancel = TRUE]
    ELSE task

\* ------------------------------------------- lifespan and startup recovery
\* Mutant: the filter looks at the age of a record only.
RecoveryMatchesAnyStatus(rec, t) ==
    /\ rec.processing_status # "absent"
    /\ rec.upload_date < t - StaleMinutes

\* Mutant: the filter leaves out the records still "uploading".
RecoveryMatchesProcessingOnly(rec, t) ==
    /\ rec.processing_status = "processing"
    /\ rec.upload_date < t - StaleMinutes

\* Mutant: the filter leaves out the age of a record.
RecoveryMatchesAnyAge(rec, t) ==
    rec.processing_status \in {"processing", "uploading"}

\* The filter of update_many in recover_orphaned_processes, at time t.
RecoveryMatches(rec, t) ==
    /\ rec.processing_status \in {"processing", "uploading"}
    /\ rec.upload_date < t - StaleMinutes

\* update_many of recover_orphaned_processes at time t.
RecoverOrphaned(meta, t) ==
    [d \in DOMAIN meta |->
        IF RecoveryMatches(meta[d], t)
        THEN [meta[d] EXCEPT !.processing_status = "failed",
                             !.error_message = "recovery",
                             !.error_len = RecoveryLen]
        ELSE meta[d]]

\* await recover_orphaned_processes() of lifespan: the update_many, or a
\* storage error that is logged and leaves the records alone.
LifespanRecover ==
    /\ lifespan = "recover"
    /\ \/ /\ document_metadata' = RecoverOrphaned(document_metadata, now)
          /\ recovered' = "ok"
          /\ UNCHANGED faults
       \/ /\ faults < MaxFaults
          /\ faults' = faults + 1
          /\ recovered' = "error"
          /\ UNCHANGED document_metadata
    /\ lifespan' = "start"
    /\ UNCHANGED <<upload_queue, temp_file, upload, admin, procVars, now,
                   restarts, histVars, content, vector_store, store_runs, apiVars, channel,
                   eventVars>>

\* Mutant: lifespan creates the processor task before it awaits
\* recover_orphaned_processes.
LifespanStartsFirst ==
    /\ lifespan = "recover"
    /\ start_calls = 0
    /\ StartQueueProcessor
    /\ UNCHANGED <<upload_queue, document_metadata, temp_file, upload, admin,
                   lifespan, now, restarts, recovered, histVars, fileVars>>

\* await start_queue_processor(get_database()) of lifespan; the
\* application then serves requests.
LifespanStart ==
    /\ lifespan = "start"
    /\ StartQueueProcessor
    /\ lifespan' = "serving"
    /\ UNCHANGED <<upload_queue, document_metadata, temp_file, upload, admin,
                   now, restarts, recovered, histVars, fileVars>>

\* Shutdown of lifespan: processor_task.cancel(), then await processor_task.
LifespanShutdown ==
    /\ lifespan = "serving"
    /\ task' = CancelProcessorTask
    /\ lifespan' = "stopping"
    /\ UNCHANGED <<upload_queue, document_metadata, temp_file, upload, admin,
                   processor_task, start_calls, start_returned, now, restarts,
                   recovered, histVars, fileVars>>

\* What a process exit leaves: the collections and the files stay, tasks,
\* request handlers, the broadcaster's listeners and the streams are gone.
ProcessGone ==
    /\ task' = [t \in TaskIds |-> TaskNone]
    /\ processor_task' = 0
    /\ start_calls' = 0
    /\ start_returned' = 0
    /\ recovered' = "pending"
    /\ admin' = [a \in AdminIds |-> [pc |-> "idle", item |-> 0, writes |-> <<>>]]
    /\ upload' = [d \in Docs |->
                    IF upload[d].pc = "insert"
                    THEN [pc |-> "aborted", next_position |-> 0]
                    ELSE upload[d]]
    /\ lifespan' = "down"
    /\ listeners' = <<>>
    /\ channel' = [s \in StreamIds |-> <<>>]
    /\ stream' = [s \in StreamIds |->
                    IF stream[s].pc = "idle" THEN stream[s]
                    ELSE [stream[s] EXCEPT !.pc = "closed"]]
    /\ UNCHANGED <<upload_queue, document_metadata, temp_file, now, restarts,
                   histVars, content, faults, vector_store, store_runs, apiVars,
                   broadcasts>>

\* The awaited task has ended; close_mongo_connection and process exit.
LifespanStopped ==
    /\ lifespan = "stopping"
    /\ ~ProcessorRunning
    /\ ProcessGone

\* The process is killed.
Crash ==
    /\ lifespan \in {"recover", "start", "serving"}
    /\ ProcessGone

\* The next process start.
Restart ==
    /\ lifespan = "down"
    /\ restarts < MaxRestarts
    /\ restarts' = restarts + 1
    /\ lifespan' = "recover"
    /\ UNCHANGED <<upload_queue, document_metadata, temp_file, upload, admin,
                   procVars, now, recovered, histVars, fileVars>>

\* Time passes, in steps just over the staleness threshold.
TickMinutes == StaleMinutes + 1

Tick ==
    /\ now + TickMinutes <= MaxTicks * TickMinutes
    /\ now' = now + TickMinutes
    /\ UNCHANGED <<upload_queue, document_metadata, temp_file, upload, admin,
                   procVars, lifespan, restarts, recovered, histVars, fileVars>>

\* ------------------------------------- the vector-storage step by itself
queueVars == <<upload_queue, document_metadata, temp_file, upload, admin,
               procVars, lifeVars, histVars, content, faults, apiVars>>

\* Numbers of chunks around the batch size.
StoreSizes == {0, 1, BatchSize - 1, BatchSize, BatchSize + 1, 2 * BatchSize + 1}

\* One run of _store_vectors to completion, for document d and a list of n
\* chunks with their n embeddings.
StoreRun(d, n) ==
    /\ Len(store_runs) < MaxStoreRuns
    /\ vector_store' = StoreVectors(vector_store, d, n, n, -1).store
    /\ store_runs' = Append(store_runs, <<d, n>>)
    /\ UNCHANGED <<queueVars, channel, eventVars>>

\* ------------------------------------------------------- get_queue_stats
\* Mutant: the counts of document_metadata ignore the deleted flag.
CountAnyDeleted(meta, status) ==
    Cardinality({d \in DOMAIN meta : meta[d].processing_status = status})

\* document_metadata.count_documents({"processing_status": status,
\* "deleted": False}).
CountDocuments(meta, status) ==
    Cardinality({d \in DOMAIN meta :
                    /\ meta[d].processing_status = status
                    /\ meta[d].deleted = FALSE})

\* The dict get_queue_stats returns. Every queue item has status
\* "pending" (add_to_queue sets it and nothing updates it), so the count
\* of the queue with {"status": "pending"} counts every item.
QueueStats(q, meta) ==
    LET pending == Cardinality(Queued(q))
        processing == CountDocuments(meta, "processing")
        completed == CountDocuments(meta, "completed")
        failed == CountDocuments(meta, "failed")
    IN [total |-> pending + processing + completed + failed,
        pending |-> pending, processing |-> processing,
        completed |-> completed, failed |-> failed]

\* A get_queue_stats call during which no other operation runs.
GetQueueStats ==
    /\ lifespan = "serving"
    /\ stats.calls < MaxStatsCalls
    /\ stats' = QueueStats(upload_queue, document_metadata)
                   @@ ("calls" :> stats.calls + 1)
    /\ UNCHANGED <<upload_queue, document_metadata, temp_file, upload, admin,
                   procVars, lifeVars, histVars, content, faults,
                   vector_store, store_runs, channel, eventVars, deletion>>

\* ------------------------------------------ DELETE /documents/{document_id}
\* find_one of delete_document: a missing record answers 404, a record
\* already soft-deleted answers 400 unless hard_delete is set.
DeleteFind(d, hard) ==
    /\ lifespan = "serving"
    /\ deletion[d].pc = "idle"
    /\ document_metadata[d].processing_status # "absent"
    /\ hard \/ ~document_metadata[d].deleted
    /\ deletion' = [deletion EXCEPT ![d] = [pc |-> "vectors",
                                            hard_delete |-> hard]]
    /\ UNCHANGED <<upload_queue, document_metadata, temp_file, upload, admin,
                   procVars, lifeVars, histVars, content, faults,
                   vector_store, store_runs, channel, eventVars, stats>>

\* delete_vectors_by_filter for the document; a failure is logged and the
\* call goes on.
DeleteVectors(d) ==
    /\ deletion[d].pc = "vectors"
    /\ \/ /\ vector_store' = vector_store \ VectorsOf(d)
          /\ UNCHANGED faults
       \/ /\ faults < MaxFaults
          /\ faults' = faults + 1
          /\ UNCHANGED vector_store
    /\ deletion' = [deletion EXCEPT ![d].pc = "mark"]
    /\ UNCHANGED <<upload_queue, document_metadata, temp_file, upload, admin,
                   procVars, lifeVars, histVars, content, store_runs, channel,
                   eventVars, stats>>

\* delete_one of a hard delete, or the update_one that sets deleted.
DeleteMark(d) ==
    /\ deletion[d].pc = "mark"
    /\ document_metadata' =
          IF deletion[d].hard_delete
          THEN DeleteMetadata(document_metadata, d)
          ELSE UpdateOne(document_metadata, d, [deleted |-> TRUE])
    /\ deletion' = [deletion EXCEPT ![d].pc = "done"]
    /\ UNCHANGED <<upload_queue, temp_file, upload, admin, procVars,
                   lifeVars, histVars, content, faults, vector_store,
                   store_runs, channel, eventVars, stats>>

\* ------------------------------- direct calls of the DocumentEventsManager
\* queue = await subscribe(document_id), by subscriber s.
Subscribe(s, d) ==
    /\ stream[s].pc = "idle"
    /\ listeners' = SubscribeTo(listeners, d, s)
    /\ channel' = [channel EXCEPT ![s] = <<>>]
    /\ stream' = [stream EXCEPT ![s] =
                     [@ EXCEPT !.pc = "subscribed", !.doc = d,
                               !.since = Len(broadcasts)]]
    /\ UNCHANGED <<queueVars, vector_store, store_runs, broadcasts>>

\* await unsubscribe(document_id, queue), by subscriber s.
Unsubscribe(s) ==
    /\ stream[s].pc = "subscribed"
    /\ listeners' = UnsubscribeFrom(listeners, stream[s].doc, s)
    /\ stream' = [stream EXCEPT ![s] =
                     [@ EXCEPT !.pc = "unsubscribed",
                               !.upto = Len(broadcasts)]]
    /\ UNCHANGED <<queueVars, vector_store, store_runs, channel, broadcasts>>

\* The updates a caller broadcasts for d.
Updates(d) == {Update(d, st, -1) : st \in {"processing", "completed"}}

\* await broadcast_update(document_id, update).
BroadcastUpdate(d, u) ==
    /\ Len(broadcasts) < MaxBroadcasts
    /\ channel' = Broadcast(listeners, channel, d, u, now)
    /\ broadcasts' = Append(broadcasts,
                            [document_id |-> d, update |-> u, at |-> now])
    /\ UNCHANGED <<queueVars, vector_store, store_runs, listeners, stream>>

\* await broadcast_update(document_id, update) in which put_nowait raises
\* on the queues of some listeners of the document.
BroadcastUpdateBroken(d, u) ==
    /\ Len(broadcasts) < MaxBroadcasts
    /\ faults < MaxFaults
    /\ faults' = faults + 1
    /\ \E dead \in SUBSET Subscribers(listeners, d) :
         /\ dead # {}
         /\ channel' = BroadcastBut(listeners, channel, d, u, now, dead)
         /\ listeners' = DiscardDead(listeners, d, dead)
    /\ broadcasts' = Append(broadcasts,
                            [document_id |-> d, update |-> u, at |-> now])
    /\ UNCHANGED <<upload_queue, document_metadata, temp_file, upload, admin,
                   procVars, lifeVars, histVars, content, apiVars,
                   vector_store, store_runs, stream>>

\* ------------------------------- stream_document_updates / event_generator
\* The stream is opened: subscribe, then the "connected" event. The stream
\* then waits on its queue; the keepalive it sends on a 30 s timeout
\* changes nothing.
StreamOpen(s, d) ==
    /\ lifespan = "serving"
    /\ stream[s].pc = "idle"
    /\ listeners' = SubscribeTo(listeners, d, s)
    /\ channel' = [channel EXCEPT ![s] = <<>>]
    /\ stream' = [stream EXCEPT ![s] =
                     [@ EXCEPT !.pc = "waiting", !.doc = d,
                               !.emitted = <<"connected">>,
                               !.status_at_open =
                                   document_metadata[d].processing_status]]
    /\ UNCHANGED <<queueVars, vector_store, store_runs, broadcasts>>

\* queue.get() returns an update, which is sent to the client.
StreamGet(s) ==
    /\ stream[s].pc = "waiting"
    /\ channel[s] # <<>>
    /\ channel' = [channel EXCEPT ![s] = Tail(@)]
    /\ LET u == Head(channel[s]) IN
       stream' = [stream EXCEPT ![s] =
                    [@ EXCEPT !.emitted = Append(@, u.processing_status),
                              !.pc = IF u.processing_status
                                        \in {"completed", "failed"}
                                     THEN "done" ELSE "waiting"]]
    /\ UNCHANGED <<queueVars, vector_store, store_runs, listeners, broadcasts>>

\* After a terminal update: the "done" event, and the loop is left.
StreamDone(s) ==
    /\ stream[s].pc = "done"
    /\ stream' = [stream EXCEPT ![s] =
                     [@ EXCEPT !.emitted = Append(@, "done"),
                               !.pc = "finally"]]
    /\ UNCHANGED <<queueVars, vector_store, store_runs, listeners, channel,
                   broadcasts>>

\* Mutant: the stream of a client that went away ends without its finally
\* clause.
StreamDisconnectSkipsFinally(s) ==
    /\ stream[s].pc \in {"waiting", "done"}
    /\ stream' = [stream EXCEPT ![s].pc = "closed"]
    /\ UNCHANGED <<queueVars, vector_store, store_runs, listeners, channel,
                   broadcasts>>

\* The client disconnects: CancelledError is thrown into the generator at
\* the await of queue.get(), or the generator is closed at a yield; the
\* handler re-raises and the finally clause runs.
StreamDisconnect(s) ==
    /\ stream[s].pc \in {"waiting", "done"}
    /\ stream' = [stream EXCEPT ![s].pc = "finally"]
    /\ UNCHANGED <<queueVars, vector_store, store_runs, listeners, channel,
                   broadcasts>>

\* An exception inside the try of event_generator: the handler sends an
\* "error" event and the finally clause runs.
StreamError(s) ==
    /\ stream[s].pc \in {"waiting", "done"}
    /\ faults < MaxFaults
    /\ faults' = faults + 1
    /\ stream' = [stream EXCEPT ![s] =
                     [@ EXCEPT !.emitted = Append(@, "error"),
                               !.pc = "finally"]]
    /\ UNCHANGED <<upload_queue, document_metadata, temp_file, upload, admin,
                   procVars, lifeVars, histVars, content, apiVars,
                   vector_store, store_runs, listeners, channel, broadcasts>>

\* The finally clause: unsubscribe.
StreamClose(s) ==
    /\ stream[s].pc = "finally"
    /\ listeners' = UnsubscribeFrom(listeners, stream[s].doc, s)
    /\ stream' = [stream EXCEPT ![s].pc = "closed"]
    /\ UNCHANGED <<queueVars, vector_store, store_runs, channel, broadcasts>>

\* ------------------------------------------------------- specifications
Uploads ==
    \/ \E d \in Docs : UploadCall(d)
    \/ \E d \in Docs : UploadInsert(d)

AdminRemove ==
    \/ \E a \in AdminIds, d \in Docs : AdminGetItem(a, d)
    \/ \E a \in AdminIds : AdminDeleteMetadata(a)
    \/ \E a \in AdminIds : AdminDeleteFile(a)
    \/ \E a \in AdminIds : AdminDeleteItem(a)
    \/ \E a \in AdminIds : AdminReorderFind(a)
    \/ \E a \in AdminIds : AdminReorderUpdate(a)

ProcessorLoop ==
    \/ \E t \in TaskIds : ProcessorFind(t)
    \/ \E t \in TaskIds : ProcessorSleep(t)
    \/ \E t \in TaskIds : ProcessorDelete(t)
    \/ \E t \in TaskIds : ProcessorReorderFind(t)
    \/ \E t \in TaskIds : ProcessorReorderUpdate(t)
    \/ \E t \in TaskIds : ProcessorInsert(t)

ProcessorErrors ==
    \/ \E t \in TaskIds : ProcessorFailWrite(t)
    \/ \E t \in TaskIds : ProcessorStorageError(t)

Processor == ProcessorLoop \/ ProcessorErrors

PipelineSteps ==
    \/ \E t \in TaskIds : PipelineStart(t)
    \/ \E t \in TaskIds : PipelineExtract(t)
    \/ \E t \in TaskIds : PipelineChunking(t)
    \/ \E t \in TaskIds : PipelineProgress50(t)
    \/ \E t \in TaskIds : PipelineEmbed(t)
    \/ \E t \in TaskIds : PipelineProgress80(t)
    \/ \E t \in TaskIds : PipelineStore(t)
    \/ \E t \in TaskIds : PipelineComplete(t)
    \/ \E t \in TaskIds : PipelineFail(t)

Heartbeat ==
    \/ \E t \in TaskIds : PipelineHeartbeatSleep(t)
    \/ \E t \in TaskIds : PipelineHeartbeat(t)

Pipeline == PipelineSteps \/ Heartbeat

\* The deployed application: processes that start, serve uploads and admin
\* removals while the processor task runs, and stop or are killed.
Init == InitWith(MaxDocs, FALSE)

Next ==
    \/ Uploads
    \/ AdminRemove
    \/ Processor
    \/ Pipeline
    \/ \E t \in TaskIds : TaskCancelled(t)
    \/ LifespanRecover
    \/ LifespanStart
    \/ LifespanShutdown
    \/ LifespanStopped
    \/ Crash
    \/ Restart
    \/ Tick

Spec == Init /\ [][Next]_vars

\* One process serving uploads and admin removals while its processor task
\* runs, with the history variables recorded.
InitQueue == InitWith(MaxDocs, TRUE)

NextQueue ==
    \/ Uploads
    \/ AdminRemove
    \/ Processor
    \/ Pipeline
    \/ LifespanRecover
    \/ LifespanStart

SpecQueue == InitQueue /\ [][NextQueue]_vars

\* The processor and the pipeline on uploaded files of known content: what
\* extraction and the chunker return for each file is fixed from the start.
InitPipeline == \E c \in [1..MaxDocs -> Contents] : InitFiles(MaxDocs, TRUE, c)

NextPipeline ==
    \/ Uploads
    \/ Processor
    \/ Pipeline
    \/ LifespanRecover
    \/ LifespanStart

SpecPipeline == InitPipeline /\ [][NextPipeline]_vars

\* The same processor and pipeline on files that may also be long enough
\* for the chunker to return more chunks than one upsert batch holds.
LongContent == [text_len |-> MinTextLen, chunks |-> BatchSize + 1]

InitBatches ==
    \E c \in [1..MaxDocs -> Contents \cup {LongContent}] :
        InitFiles(MaxDocs, TRUE, c)

SpecBatches == InitBatches /\ [][NextPipeline]_vars

\* The same process from the state in which RaceQueued documents have been
\* uploaded one after the other and wait at positions 1..RaceQueued, the
\* processor task polls, and one more document is still to be uploaded.
\* Every file is a good one, no call raises and extraction takes less than
\* one heartbeat period.
InitRace ==
    /\ upload_queue = [d \in 1..(RaceQueued + 1) |->
                         IF d <= RaceQueued THEN d ELSE 0]
    /\ document_metadata = [d \in 1..(RaceQueued + 1) |-> NoRecord]
    /\ temp_file = [d \in 1..(RaceQueued + 1) |-> d <= RaceQueued]
    /\ content = [d \in 1..(RaceQueued + 1) |-> GoodContent]
    /\ faults = MaxFaults
    /\ vector_store = {}
    /\ store_runs = <<>>
    /\ stats = NoStats
    /\ deletion = [d \in DOMAIN upload_queue |-> [pc |-> "idle", hard_delete |-> FALSE]]
    /\ listeners = <<>>
    /\ channel = [s \in StreamIds |-> <<>>]
    /\ stream = [s \in StreamIds |-> StreamIdle]
    /\ broadcasts = <<>>
    /\ upload = [d \in 1..(RaceQueued + 1) |->
                   IF d <= RaceQueued
                   THEN [pc |-> "done", next_position |-> d]
                   ELSE [pc |-> "idle", next_position |-> 0]]
    /\ admin = [a \in AdminIds |-> [pc |-> "idle", item |-> 0, writes |-> <<>>]]
    /\ task = [t \in TaskIds |->
                 IF t = 1 THEN [TaskNone EXCEPT !.pc = "find"] ELSE TaskNone]
    /\ processor_task = 1
    /\ lifespan = "serving"
    /\ now = 0
    /\ restarts = 0
    /\ handed = <<>>
    /\ returned_before = [d \in 1..(RaceQueued + 1) |->
                            {e \in 1..RaceQueued : e < d}]
    /\ admin_target = {}
    /\ recovered = "ok"
    /\ start_calls = 1
    /\ start_returned = 1
    /\ history = TRUE

NextRace ==
    \/ Uploads
    \/ AdminRemove
    \/ ProcessorLoop
    \/ PipelineSteps

SpecRace == InitRace /\ [][NextRace]_vars

\* Any number of start_queue_processor calls: besides the call of lifespan,
\* further calls are made while the application serves and after the
\* shutdown has cancelled the task.
StartCall ==
    /\ lifespan \in {"serving", "stopping"}
    /\ start_calls < MaxStartCalls
    /\ StartQueueProcessor
    /\ UNCHANGED <<upload_queue, document_metadata, temp_file, upload, admin,
                   lifeVars, histVars, fileVars>>

InitTasks == InitWith(MaxDocs, FALSE)

NextTasks ==
    \/ Uploads
    \/ Processor
    \/ Pipeline
    \/ \E t \in TaskIds : TaskCancelled(t)
    \/ LifespanRecover
    \/ LifespanStart
    \/ LifespanShutdown
    \/ StartCall

SpecTasks == InitTasks /\ [][NextTasks]_vars

\* Startup recovery on any stored state: each document is queued, or has no
\* record, or has a record of any status (DocumentMetadataModel defaults to "uploading")
\* whose age is just under, at, or just over the threshold.
RecoveryStatuses == {"uploading", "processing", "completed", "failed"}
RecoveryAges == {StaleMinutes - 1, StaleMinutes, StaleMinutes + 1}

StoredRecord(st, date) ==
    [processing_status |-> st,
     processing_step |-> IF st = "uploading" THEN "none" ELSE "extracting_text",
     processing_progress |-> IF st = "uploading" THEN -1 ELSE 0,
     chunk_count |-> IF st = "completed" THEN 1 ELSE -1,
     error_message |-> IF st = "failed" THEN "pipeline" ELSE "none",
     error_len |-> IF st = "failed" THEN NoTextLen ELSE 0,
     upload_date |-> date, deleted |-> FALSE]

InitRecovery ==
    /\ upload_queue \in {q \in [1..MaxDocs -> 0..MaxDocs] : DensePositions(q)}
    /\ now = StaleMinutes + 1
    /\ document_metadata \in
          [1..MaxDocs -> {NoRecord} \cup
              {StoredRecord(st, now - a) : st \in RecoveryStatuses,
                                           a \in RecoveryAges}]
    /\ \A d \in 1..MaxDocs : upload_queue[d] # 0 => document_metadata[d] = NoRecord
    /\ temp_file = [d \in 1..MaxDocs |-> upload_queue[d] # 0]
    /\ content = [d \in 1..MaxDocs |-> AnyContent]
    /\ faults = 0
    /\ vector_store = {}
    /\ store_runs = <<>>
    /\ stats = NoStats
    /\ deletion = [d \in DOMAIN upload_queue |-> [pc |-> "idle", hard_delete |-> FALSE]]
    /\ listeners = <<>>
    /\ channel = [s \in StreamIds |-> <<>>]
    /\ stream = [s \in StreamIds |-> StreamIdle]
    /\ broadcasts = <<>>
    /\ upload = [d \in 1..MaxDocs |-> [pc |-> "done", next_position |-> 0]]
    /\ admin = [a \in AdminIds |-> [pc |-> "idle", item |-> 0, writes |-> <<>>]]
    /\ task = [t \in TaskIds |-> TaskNone]
    /\ processor_task = 0
    /\ lifespan = "recover"
    /\ restarts = 0
    /\ handed = <<>>
    /\ returned_before = [d \in 1..MaxDocs |-> {}]
    /\ admin_target = {}
    /\ recovered = "pending"
    /\ start_calls = 0
    /\ start_returned = 0
    /\ history = FALSE

NextRecovery ==
    \/ LifespanRecover
    \/ LifespanStart

SpecRecovery == InitRecovery /\ [][NextRecovery]_vars

\* One process whose storage operations of the loop body succeed, with the
\* event loop running the processor task whenever it is ready.
TaskStep ==
    \/ ProcessorLoop
    \/ PipelineSteps
    \/ \E t \in TaskIds : ProcessorFailWrite(t)

InitLive == InitWith(MaxDocs, TRUE)

NextLive ==
    \/ Uploads
    \/ TaskStep
    \/ LifespanRecover
    \/ LifespanStart

SpecLive == InitLive /\ [][NextLive]_vars /\ WF_vars(TaskStep)

\* Runs of the vector-storage step, one after the other.
InitStore == InitWith(MaxDocs, FALSE)

NextStore == \E d \in Docs, n \in StoreSizes : StoreRun(d, n)

SpecStore == InitStore /\ [][NextStore]_vars

\* The queue statistics read between the steps of uploads, of the
\* processor and of document deletions.
DeleteDocument ==
    \/ \E d \in Docs, hard \in BOOLEAN : DeleteFind(d, hard)
    \/ \E d \in Docs : DeleteVectors(d)
    \/ \E d \in Docs : DeleteMark(d)

InitStats == InitWith(MaxDocs, FALSE)

NextStats ==
    \/ Uploads
    \/ TaskStep
    \/ DeleteDocument
    \/ GetQueueStats
    \/ LifespanRecover
    \/ LifespanStart

SpecStats == InitStats /\ [][NextStats]_vars

\* Callers of the broadcaster, each call running to completion.
InitEvents == InitWith(MaxDocs, FALSE)

NextEvents ==
    \/ \E s \in StreamIds, d \in Docs : Subscribe(s, d)
    \/ \E s \in StreamIds : Unsubscribe(s)
    \/ \E d \in Docs : \E u \in Updates(d) : BroadcastUpdate(d, u)
    \/ Tick

SpecEvents == InitEvents /\ [][NextEvents]_vars

\* Streams of clients that stay or go away, on documents for which updates
\* are broadcast, with deliveries that may fail.
StreamEnds ==
    \/ \E s \in StreamIds : StreamDisconnect(s)
    \/ \E s \in StreamIds : StreamError(s)

NextClients ==
    \/ LifespanRecover
    \/ LifespanStart
    \/ \E s \in StreamIds, d \in Docs : StreamOpen(s, d)
    \/ \E s \in StreamIds : StreamGet(s)
    \/ \E s \in StreamIds : StreamDone(s)
    \/ \E s \in StreamIds : StreamClose(s)
    \/ StreamEnds
    \/ \E d \in Docs : \E u \in Updates(d) : BroadcastUpdate(d, u)
    \/ \E d \in Docs : \E u \in Updates(d) : BroadcastUpdateBroken(d, u)

SpecClients == InitEvents /\ [][NextClients]_vars

\* The same calls when a delivery of a broadcast may fail.
NextDelivery ==
    \/ \E s \in StreamIds, d \in Docs : Subscribe(s, d)
    \/ \E s \in StreamIds : Unsubscribe(s)
    \/ \E d \in Docs : \E u \in Updates(d) : BroadcastUpdate(d, u)
    \/ \E d \in Docs : \E u \in Updates(d) : BroadcastUpdateBroken(d, u)

SpecDelivery == InitEvents /\ [][NextDelivery]_vars

\* Streams on the documents the processor works through. A stream whose
\* client stays connected takes its next step; so does the processor task.
StreamSteps ==
    \/ \E s \in StreamIds : StreamGet(s)
    \/ \E s \in StreamIds : StreamDone(s)
    \/ \E s \in StreamIds : StreamClose(s)

InitStream == InitWith(StreamDocs, FALSE)

NextStream ==
    \/ Uploads
    \/ TaskStep
    \/ \E s \in StreamIds, d \in Docs : StreamOpen(s, d)
    \/ StreamSteps
    \/ LifespanRecover
    \/ LifespanStart

SpecStream ==
    InitStream /\ [][NextStream]_vars /\ WF_vars(TaskStep) /\ WF_vars(StreamSteps)

\* One client's stream on one of the documents the processor works
\* through, the heartbeat rounds of the extraction included.
NextUpdates ==
    \/ Uploads
    \/ TaskStep
    \/ Heartbeat
    \/ \E d \in Docs : StreamOpen(1, d)
    \/ StreamSteps
    \/ LifespanRecover
    \/ LifespanStart

SpecUpdates == InitStream /\ [][NextUpdates]_vars

\* ======================================================================
\* Properties
\* ======================================================================
Status(d) == document_metadata[d].processing_status
Terminal(d) == Status(d) \in {"completed", "failed"}
Index(seq, x) == CHOOSE i \in 1..Len(seq) : seq[i] = x
InSeq(seq, x) == \E i \in 1..Len(seq) : seq[i] = x
ActiveTasks == {t \in TaskIds : task[t].pc \notin {"none", "done"}}

\* ----------------------------------------------------------------- C2
\* The enqueue calls of d and e overlapped: neither had returned when the
\* other was called.
Overlapped(d, e) ==
    /\ d # e
    /\ upload[d].pc = "done" /\ upload[e].pc = "done"
    /\ d \notin returned_before[e] /\ e \notin returned_before[d]

\* C2: when two add_to_queue calls overlap in time, the two resulting queue
\* items never hold the same position.
C2_OverlappingEnqueuesDistinct ==
    \A d, e \in Docs :
        (Overlapped(d, e) /\ upload_queue[d] # 0 /\ upload_queue[e] # 0)
            => upload_queue[d] # upload_queue[e]

\* ----------------------------------------------------------------- C3
\* C3: at no time does a document have both an item in upload_queue and a
\* record in document_metadata, whatever the interleaving of uploads, the
\* processor task and admin removals.
C3_QueuedXorRecorded ==
    \A d \in Docs : ~(upload_queue[d] # 0 /\ Status(d) # "absent")

\* One document has been dequeued and has its record while another still
\* waits in the queue and an admin removal is under way.
C3_Witness ==
    \E d, e \in Docs :
        /\ Status(d) # "absent" /\ upload_queue[d] = 0
        /\ upload_queue[e] # 0
        /\ \E a \in AdminIds : admin[a].pc # "idle"

\* ----------------------------------------------------------------- C4
\* A dequeue takes an item of lowest position.
DequeueTakesLowest ==
    [][\A t \in TaskIds :
         (task[t].pc = "find" /\ task'[t].pc = "delete")
            => \A e \in Queued(upload_queue) :
                   upload_queue[task'[t].item] <= upload_queue[e]]_vars

\* C4: if the enqueue of document a returned before the enqueue of
\* document b was called, and neither is removed by an admin, a is handed
\* to process_document before b.
C4_FifoHandOver ==
    \A a, b \in Docs :
        (/\ a \in returned_before[b]
         /\ a \notin admin_target /\ b \notin admin_target
         /\ InSeq(handed, a) /\ InSeq(handed, b))
            => Index(handed, a) < Index(handed, b)

\* ----------------------------------------------------------------- C5
\* C5: at any instant at most one document is between the start and the
\* end of process_document, for any uploads and any number of
\* start_queue_processor calls in the process.
C5_OneDocumentInPipeline ==
    /\ Cardinality({t \in TaskIds : InPipeline(t)}) <= 1
    /\ Cardinality({task[t].item : t \in {u \in TaskIds : InPipeline(u)}}) <= 1

\* A task created by a later start_queue_processor call runs the pipeline.
C5_Witness ==
    /\ start_calls >= 2
    /\ \E t \in TaskIds : t > 1 /\ InPipeline(t)

\* ----------------------------------------------------------------- C7
\* C7: a start_queue_processor call made while a processor task runs
\* creates no task and returns the running one; at most one processor task
\* is active at any time.
C7_IdempotentStart ==
    /\ [](Cardinality(ActiveTasks) <= 1)
    /\ [][(start_calls' = start_calls + 1 /\ ProcessorRunning)
            => /\ task' = task
               /\ processor_task' = processor_task
               /\ start_returned' = processor_task]_vars

\* A second call has returned the task the first call created, which runs.
C7_Witness ==
    /\ start_calls = 2
    /\ start_returned = 1 /\ processor_task = 1
    /\ ActiveTasks = {1}
    /\ \A t \in TaskIds : t > 1 => task[t].pc = "none"

\* ----------------------------------------------------------------- C8
\* C8: once a record is completed or failed, no later step of the
\* pipeline, the processor task or startup recovery changes its
\* processing_status (the record can only be deleted by an admin removal),
\* so a processed document reaches exactly one terminal state.
C8_TerminalStatusKept ==
    [][\A d \in Docs :
         Terminal(d) =>
            \/ document_metadata'[d].processing_status = Status(d)
            \/ /\ document_metadata'[d].processing_status = "absent"
               /\ \E a \in AdminIds : /\ admin[a].pc = "delete_metadata"
                                      /\ admin[a].item = d]_vars

\* Startup recovery of a later process has run over a completed record
\* older than the threshold, and the record is still completed.
C8_Witness ==
    /\ restarts >= 1 /\ recovered = "ok"
    /\ \E d \in Docs :
         /\ Status(d) = "completed"
         /\ document_metadata[d].upload_date < now - StaleMinutes

\* ----------------------------------------------------------------- C9
\* C9: every document the processor task has dequeued and handed to
\* process_document has, once the task is through with it, a record that
\* is completed or failed (the task is not cancelled, and every external
\* call returns or raises).
C9_DequeuedEndsTerminal ==
    \A i \in 1..Len(handed) :
        (\A t \in TaskIds : task[t].item # handed[i]) => Terminal(handed[i])

\* ---------------------------------------------------------------- C10
Stale(rec, t) ==
    rec.processing_status # "absent" /\ rec.upload_date < t - StaleMinutes

\* C10: right after recover_orphaned_processes has returned without a
\* storage error, no record older than the threshold is processing or
\* uploading; each record that was, is failed with the fixed message.
C10_StaleRecordsFailed ==
    /\ []((lifespan = "start" /\ recovered = "ok") =>
            \A d \in 1..MaxDocs :
                Stale(document_metadata[d], now) =>
                    Status(d) \notin {"processing", "uploading"})
    /\ [][(lifespan = "recover" /\ recovered' = "ok") =>
            \A d \in 1..MaxDocs :
                (/\ Stale(document_metadata[d], now)
                 /\ Status(d) \in {"processing", "uploading"})
                    => /\ document_metadata'[d].processing_status = "failed"
                       /\ document_metadata'[d].error_message = "recovery"]_vars

\* Recovery has failed a stale "uploading" record and has left a
\* "processing" record of exactly the threshold age alone.
C10_Witness ==
    /\ lifespan = "start" /\ recovered = "ok"
    /\ \E d, e \in Docs :
         /\ Status(d) = "failed"
         /\ document_metadata[d].error_message = "recovery"
         /\ document_metadata[d].processing_progress = -1
         /\ Status(e) = "processing"
         /\ document_metadata[e].upload_date = now - StaleMinutes

\* ---------------------------------------------------------------- C11
\* C11: a record left in processing by a process that stopped is marked
\* failed by the startup recovery of the next process start: right after
\* that recovery has returned without a storage error, before the new
\* processor task exists, no record is in processing.
C11_OrphansFailedAtNextBoot ==
    (restarts >= 1 /\ lifespan = "start" /\ recovered = "ok") =>
        \A d \in Docs : Status(d) # "processing"

\* ---------------------------------------------------------------- C12
\* The pipeline run of d is over: d was handed to the pipeline and no task
\* holds it any more.
RunOver(d) ==
    /\ InSeq(handed, d)
    /\ \A t \in TaskIds : task[t].item # d

\* C12: a document whose pipeline run ended completed has chunk_count equal
\* to the number n of chunks the chunker returned for its file, and the
\* vectors upserted for it are exactly those with the ids
\* <<d, 0>> .. <<d, n - 1>>.
C12_CompletedCountsAgree ==
    \A d \in Docs :
        Status(d) = "completed" =>
            /\ document_metadata[d].chunk_count = content[d].chunks
            /\ VectorsOf(d) = {VectorId(d, idx) : idx \in 0..(content[d].chunks - 1)}

\* A document of MaxChunks chunks has completed.
C12_Witness ==
    \E d \in Docs :
        /\ Status(d) = "completed"
        /\ content[d].chunks = MaxChunks
        /\ Cardinality(VectorsOf(d)) = MaxChunks

\* ---------------------------------------------------------------- C13
\* C13: when text extraction raised for a document, after its run the
\* record is failed with an error message and the temp file is gone.
C13_ExtractionErrorCleansUp ==
    \A d \in Docs :
        (RunOver(d) /\ content[d].text_len = -1) =>
            /\ Status(d) = "failed"
            /\ document_metadata[d].error_message # "none"
            /\ ~temp_file[d]

\* ---------------------------------------------------------------- C14
\* The file of d has no usable text, or the chunker returns no chunk.
NothingToEmbed(d) ==
    \/ content[d].text_len < MinTextLen
    \/ content[d].chunks = 0

\* The pcs of a run from the call of _generate_embeddings_batch to the
\* write of completed.
EmbeddingPcs == {"pd_embed", "pd_progress80", "pd_store", "pd_complete"}

C15_StoreTwiceIsStoreOnce ==
    [][\A d \in Docs, n \in StoreSizes :
          (/\ store_runs' = Append(store_runs, <<d, n>>)
           /\ InSeq(store_runs, <<d, n>>))
          => /\ vector_store' = vector_store
             /\ Cardinality(VectorsOf(d))' = Cardinality(VectorsOf(d))]_vars

\* The step has run twice in a row for the same document and a list of
\* more than two batches, and the store holds one vector per chunk.
C15_Witness ==
    \E d \in Docs :
        /\ Len(store_runs) = 2
        /\ store_runs[1] = <<d, 2 * BatchSize + 1>>
        /\ store_runs[2] = <<d, 2 * BatchSize + 1>>
        /\ Cardinality(VectorsOf(d)) = 2 * BatchSize + 1

\* ---------------------------------------------------------------- C16
\* The subscriber s has subscribed.
HasSubscribed(s) == stream[s].pc \in {"subscribed", "unsubscribed"}

\* The broadcasts made for the document of s while s was subscribed.
WhileSubscribed(s) ==
    LET last == IF stream[s].upto = -1 THEN Len(broadcasts) ELSE stream[s].upto
        For(b) == b.document_id = stream[s].doc
    IN SelectSeq(SubSeq(broadcasts, stream[s].since + 1, last), For)

\* C16: the channel of a subscriber holds, in broadcast order, exactly one
\* update for each broadcast made for its document while it was
\* subscribed, each with the timestamp added, and nothing else: nothing of
\* a broadcast made after its unsubscribe returned.
C16_OneDeliveryPerBroadcast ==
    \A s \in StreamIds :
        HasSubscribed(s) =>
            channel[s] = [i \in 1..Len(WhileSubscribed(s)) |->
                            Stamp(WhileSubscribed(s)[i].update,
                                  WhileSubscribed(s)[i].at)]

\* A subscriber received two updates, unsubscribed, and a broadcast for its
\* document was made afterwards.
C16_Witness ==
    \E s \in StreamIds :
        /\ stream[s].pc = "unsubscribed"
        /\ Len(channel[s]) = 2
        /\ channel[s][1].timestamp # channel[s][2].timestamp
        /\ Len(broadcasts) > stream[s].upto
        /\ broadcasts[Len(broadcasts)].document_id = stream[s].doc

\* ---------------------------------------------------------------- C17
\* Document d has a subscriber.
Subscribed(d) ==
    \E s \in StreamIds : stream[s].pc = "subscribed" /\ stream[s].doc = d

\* C17: a broadcast for a document without subscriber changes neither the
\* listener map nor any channel; a channel is empty when its subscriber
\* subscribes, and afterwards changes only by the update of the broadcast
\* being made, so the update of a broadcast without subscriber reaches no
\* later subscriber.
C17_UnheardBroadcastIsDropped ==
    [][/\ \A d \in Docs :
            (/\ Len(broadcasts') = Len(broadcasts) + 1
             /\ broadcasts'[Len(broadcasts')].document_id = d
             /\ ~Subscribed(d))
            => /\ listeners' = listeners
               /\ channel' = channel
       /\ \A s \in StreamIds :
            channel'[s] # channel[s] =>
               \/ /\ stream[s].pc = "idle" /\ stream'[s].pc = "subscribed"
                  /\ channel'[s] = <<>>
               \/ /\ Len(broadcasts') = Len(broadcasts) + 1
                  /\ stream[s].pc = "subscribed"
                  /\ LET b == broadcasts'[Len(broadcasts')] IN
                     /\ b.document_id = stream[s].doc
                     /\ channel'[s] =
                           Append(channel[s], Stamp(b.update, b.at))]_vars

\* A broadcast for d was made when d had no subscriber while another
\* document had one; a subscriber of d that came later has received only
\* the one broadcast made since.
C17_Witness ==
    \E s, r \in StreamIds :
        /\ stream[s].pc = "subscribed" /\ stream[r].pc = "subscribed"
        /\ stream[r].doc # stream[s].doc
        /\ stream[r].since = 0 /\ stream[s].since = 1
        /\ Len(broadcasts) = 2
        /\ broadcasts[1].document_id = stream[s].doc
        /\ broadcasts[2].document_id = stream[s].doc
        /\ Len(channel[s]) = 1 /\ channel[r] = <<>>

\* ---------------------------------------------------------------- C19
\* The records of document_metadata in status st that are not deleted.
Live(st) ==
    {d \in Docs : Status(d) = st /\ ~document_metadata[d].deleted}

\* C19: a get_queue_stats call during which nothing else runs returns the
\* number of queue items as pending, the numbers of non-deleted records in
\* processing, completed and failed, and their sum as total.
C19_StatsCountLiveRecords ==
    [][stats'.calls # stats.calls =>
          /\ stats'.pending = Cardinality({d \in Docs : upload_queue[d] > 0})
          /\ stats'.processing = Cardinality(Live("processing"))
          /\ stats'.completed = Cardinality(Live("completed"))
          /\ stats'.failed = Cardinality(Live("failed"))
          /\ stats'.total = stats'.pending + stats'.processing
                              + stats'.completed + stats'.failed]_vars

\* The latest call counted one completed or failed document while another
\* such document is soft-deleted and was not counted.
C19_Witness ==
    /\ stats.calls > 0
    /\ stats.total = 1 /\ stats.pending = 0
    /\ stats.completed + stats.failed = 1
    /\ \E d \in Docs : Terminal(d) /\ document_metadata[d].deleted
    /\ \E d \in Docs : Terminal(d) /\ ~document_metadata[d].deleted

\* ---------------------------------------------------------------- C20
\* C20: a cancelled processor task takes no step but the one that ends it,
\* at the await where the cancellation reached it (a sleep of the loop, a
\* storage call of the loop, or an await inside process_document): it
\* takes no further queue item and creates no record for a further
\* document. The only queue removal and the only record that can follow
\* the cancellation are those of the delete_one or insert_one that was
\* already under way.
C20_CancelledTaskEnds ==
    [][\A t \in TaskIds :
          (task[t].cancel /\ task'[t] # task[t]) =>
              /\ task'[t].pc \in {"done", "none"}
              /\ task[t].pc # "delete" =>
                    Queued(upload_queue') = Queued(upload_queue)
              /\ \A d \in Docs :
                    Status(d) = "absent" => document_metadata'[d] = NoRecord
                                            \/ task[t].pc = "insert"]_vars

\* The shutdown cancelled the task inside the pipeline call: the task has
\* ended, its document is still in processing and another document is
\* still queued.
C20_Witness ==
    /\ lifespan = "stopping"
    /\ processor_task # 0
    /\ task[processor_task].pc = "done"
    /\ \A t \in TaskIds : task[t].pc \in {"done", "none"}
    /\ \E d \in Docs : Status(d) = "processing"
    /\ \E e \in Docs : upload_queue[e] # 0

\* ---------------------------------------------------------------- C21
\* The processor task has taken the queue item of d out of the queue.
Dequeued(d) ==
    /\ upload_queue[d] = 0
    /\ \/ InSeq(handed, d)
       \/ \E t \in TaskIds :
            task[t].item = d /\ task[t].pc \notin {"find", "delete"}

\* C21: no step of an admin remove-item call deletes the record or the
\* temp file of a document the processor task has already dequeued.
C21_RemoveSparesDequeued ==
    [][\A d \in Docs :
          (admin' # admin /\ Dequeued(d)) =>
              /\ document_metadata'[d] = document_metadata[d]
              /\ temp_file'[d] = temp_file[d]]_vars

\* ---------------------------------------------------------------- C22
\* The record is completed or failed, or its upload_date is within the
\* last StaleMinutes minutes at time t.
OutOfRecovery(rec, t) ==
    \/ rec.processing_status \in {"completed", "failed"}
    \/ rec.upload_date >= t - StaleMinutes

\* C22: the step of recover_orphaned_processes changes no queue item, and
\* no record that is completed, failed or not older than StaleMinutes.
C22_RecoveryFrame ==
    [][(lifespan = "recover" /\ lifespan' = "start") =>
          /\ upload_queue' = upload_queue
          /\ \A d \in Docs :
                OutOfRecovery(document_metadata[d], now) =>
                    document_metadata'[d] = document_metadata[d]]_vars

\* Recovery has failed the stale record of one document while another
\* document is queued at position 1.
C22_Witness ==
    /\ lifespan = "start" /\ recovered = "ok"
    /\ \E d, e \in Docs :
         /\ document_metadata[d].error_message = "recovery"
         /\ upload_queue[e] = 1 /\ temp_file[e]

\* ---------------------------------------------------------------- C23
\* Task t of the current process holds document d.
Processing(t, d) ==
    /\ task[t].pc \notin {"none", "done"}
    /\ task[t].item = d

\* C23: in every process, until recover_orphaned_processes has returned no
\* processor task exists, and no step sets the recovery failure on the
\* record of a document a task of the current process holds.
C23_RecoveryBeforeProcessor ==
    /\ [](lifespan = "recover" =>
            /\ processor_task = 0
            /\ \A t \in TaskIds : task[t].pc = "none")
    /\ [][\A d \in Docs :
            (\E t \in TaskIds : Processing(t, d)) =>
                (document_metadata'[d].error_message = "recovery"
                    => document_metadata[d].error_message = "recovery")]_vars

\* After a recovery that returned, the processor task runs the pipeline on
\* a document whose record is in processing and older than the threshold.
C23_Witness ==
    /\ recovered = "ok"
    /\ \E t \in TaskIds :
         /\ InPipeline(t)
         /\ Status(task[t].item) = "processing"
         /\ document_metadata[task[t].item].upload_date < now - StaleMinutes

\* ---------------------------------------------------------------- C24
\* The awaits of the loop body of _process_queue outside process_document.
LoopBodyPcs == {"find", "delete", "reorder_find", "reorder_update", "insert"}

\* C24: a processor task ends only when it is cancelled; an exception at an
\* await of the loop body outside the pipeline call takes a task that is
\* not cancelled to the back-off sleep, and from a sleep the task goes
\* nowhere but to the next queue lookup.
C24_LoopSurvivesErrors ==
    [][\A t \in TaskIds :
          /\ (task[t].pc \notin {"none", "done"} /\ task'[t].pc = "done")
                => task[t].cancel
          /\ (/\ task[t].pc \in LoopBodyPcs /\ ~task[t].cancel
              /\ faults' = faults + 1 /\ task'[t] # task[t])
                => (task'[t].pc = "sleep" /\ task'[t].item = 0)
          /\ (task[t].pc = "sleep" /\ ~task[t].cancel)
                => task'[t].pc \in {"sleep", "find"}]_vars

\* An exception hit the loop after the queue item of d was removed and
\* before its record was inserted, and the task polls the queue again.
C24_Witness ==
    /\ faults >= 1
    /\ \E t \in TaskIds : task[t].pc = "find" /\ ~task[t].cancel
    /\ \E d \in Docs :
         /\ upload[d].pc = "done" /\ upload_queue[d] = 0
         /\ Status(d) = "absent"
         /\ \A t \in TaskIds : task[t].item # d

\* ---------------------------------------------------------------- C25
\* C25: once the extraction thread of a document has finished, no step of
\* the heartbeat changes the processing_progress of its record or delivers
\* an update to its subscribers.
C25_NoHeartbeatAfterExtraction ==
    [][\A t \in TaskIds :
          (task[t].pc \in {"pd_extract", "pd_heartbeat"} /\ task[t].extracted)
            => /\ document_metadata'[task[t].item].processing_progress
                    = document_metadata[task[t].item].processing_progress
               /\ \A s \in Subscribers(listeners, task[t].item) :
                     channel'[s] = channel[s]]_vars

\* ---------------------------------------------------------------- C26
\* The progress process_document writes with each processing_step.
StageProgress ==
    [s \in {"extracting_text", "chunking", "generating_embeddings",
            "storing_vectors"} |->
        CASE s = "extracting_text" -> 0
          [] s = "chunking" -> 30
          [] s = "generating_embeddings" -> 50
          [] s = "storing_vectors" -> 80]

\* C26: every step that writes a new processing_step to the record of a
\* document writes the progress of that stage with it and delivers to each
\* subscriber of the document one update carrying status processing and
\* the same progress (the progress identifies the stage label).
C26_StagesWrittenAndBroadcast ==
    [][\A d \in Docs :
          LET old == document_metadata[d]
              new == document_metadata'[d]
          IN  (/\ new.processing_step \in DOMAIN StageProgress
               /\ new.processing_step # old.processing_step) =>
                 /\ new.processing_progress = StageProgress[new.processing_step]
                 /\ \A s \in Subscribers(listeners, d) :
                       /\ Len(channel'[s]) = Len(channel[s]) + 1
                       /\ LET u == channel'[s][Len(channel'[s])] IN
                            /\ u.document_id = d
                            /\ u.processing_status = "processing"
                            /\ u.processing_progress = new.processing_progress]_vars

\* ---------------------------------------------------------------- C27
\* C27: the record of a document whose pipeline run ended completed holds
\* processing_progress 100.
C27_CompletedAtFullProgress ==
    \A d \in Docs :
        (RunOver(d) /\ Status(d) = "completed") =>
            document_metadata[d].processing_progress = 100

\* ---------------------------------------------------------------- C28
\* C28: the error text a processing run stored in a record is at most
\* MaxErrorLen characters long.
C28_ErrorMessageCapped ==
    \A d \in Docs :
        document_metadata[d].error_message \in {"pipeline", "processor"} =>
            document_metadata[d].error_len <= MaxErrorLen

\* ---------------------------------------------------------------- C29
\* Task t is in the except handler of process_document for the ValueError
\* of _store_vectors on two different counts.
MismatchRaised(t) == task[t].pc = "pd_fail" /\ task[t].error = MismatchLen

C31_DeliveryFailureIsSkipped ==
    [][faults' = faults + 1 =>
          /\ Len(broadcasts') = Len(broadcasts) + 1
          /\ LET b == broadcasts'[Len(broadcasts')]
                 d == b.document_id
             IN \A s \in Subscribers(listeners, d) :
                   IF s \in Subscribers(listeners', d)
                   THEN channel'[s] = Append(channel[s], Stamp(b.update, b.at))
                   ELSE channel'[s] = channel[s]]_vars

\* Of the two subscribers of one document, one has received the update of
\* a broadcast whose delivery to the other failed.
C31_Witness ==
    /\ faults = 1
    /\ \E s, r \in StreamIds :
         /\ s # r
         /\ stream[s].pc = "subscribed" /\ stream[r].pc = "subscribed"
         /\ stream[s].doc = stream[r].doc
         /\ s \in Subscribers(listeners, stream[s].doc)
         /\ r \notin Subscribers(listeners, stream[s].doc)
         /\ Len(channel[s]) = 1 /\ channel[r] = <<>>

\* ---------------------------------------------------------------- C32
\* C32: the channel of a stream that has ended, after a terminal update,
\* a disconnect of its client or an error, is in no subscriber set of the
\* listener map.
C32_EndedStreamUnsubscribed ==
    \A s \in StreamIds :
        stream[s].pc = "closed" =>
            \A d \in DOMAIN listeners : s \notin listeners[d]

\* One stream ended after the terminal update and "done", another when its
\* client went away before any terminal update.
C32_Witness ==
    \E s, r \in StreamIds :
        /\ stream[s].pc = "closed" /\ stream[r].pc = "closed"
        /\ stream[s].emitted[Len(stream[s].emitted)] = "done"
        /\ stream[r].emitted = <<"connected", "processing">>
        /\ listeners = <<>>

\* ---------------------------------------------------------------- C33
\* No add_to_queue call, no admin removal and no dequeue with its
\* renumbering pass is under way.
QueueCallsReturned ==
    /\ \A d \in Docs : upload[d].pc # "insert"
    /\ \A a \in AdminIds : admin[a].pc = "idle"
    /\ \A t \in TaskIds :
          task[t].pc \notin {"delete", "reorder_find", "reorder_update"}

\* C33: once every enqueue, removal and renumbering pass has returned, the
\* positions of the queued items are exactly 1..N.
C33_DenseAfterOverlap ==
    QueueCallsReturned => DensePositions(upload_queue)

\* ---------------------------------------------------------------- C34
\* The item of the admitted document d is gone from the queue and no task
\* is between its delete_one and its insert_one for d.
DequeueOver(d) ==
    /\ upload[d].pc = "done"
    /\ upload_queue[d] = 0
    /\ \A t \in TaskIds : task[t].item # d

\* C34: a document whose queue item the processor task has deleted has a
\* DocumentMetadata record once the task has moved on, also when the
\* renumbering pass or the insert raised.
C34_NoAdmittedDocumentLost ==
    \A d \in Docs : DequeueOver(d) => Status(d) # "absent"

\* ---------------------------------------------------------------- C35
\* C35: the vector store holds no vector of a document whose record is
\* failed, also when a later upsert batch of its run raised after earlier
\* batches had been upserted.
C35_FailedLeavesNoVectors ==
    \A d \in Docs : Status(d) = "failed" => VectorsOf(d) = {}

\* ---------------------------------------------------------------- C36
\* The processing_progress of the record of document d.
Progress(d) == document_metadata[d].processing_progress

\* C36: no write lowers the processing_progress of an existing record, and
\* a heartbeat round that writes raises both last_progress and the
\* recorded progress, to the same estimate of at most MaxHeartbeat.
C36_ProgressNeverDecreases ==
    [][/\ \A d \in Docs :
            (Status(d) # "absent" /\
             document_metadata'[d].processing_status # "absent")
                => document_metadata'[d].processing_progress >= Progress(d)
       /\ \A t \in TaskIds :
            (task[t].pc = "pd_heartbeat" /\ task'[t].pc = "pd_extract")
                => /\ task'[t].last_progress > task[t].last_progress
                   /\ task'[t].last_progress <= MaxHeartbeat
                   /\ Status(task[t].item) # "absent"
                        => /\ document_metadata'[task[t].item].processing_progress
                                = task'[t].last_progress
                           /\ document_metadata'[task[t].item].processing_progress
                                > Progress(task[t].item)]_vars

\* One document has completed at progress 80 and the heartbeat of the next
\* has written its second, capped estimate.
C36_Witness ==
    \E d, e \in Docs, t \in TaskIds :
        /\ Status(d) = "completed" /\ Progress(d) = 80
        /\ task[t].item = e /\ task[t].pc = "pd_extract"
        /\ task[t].last_progress = MaxHeartbeat
        /\ Progress(e) = MaxHeartbeat
        /\ faults = 0

\* ---------------------------------------------------------------- C37
StatusOf(u) == u.processing_status
IsStatus(e) == e \in {"processing", "completed", "failed"}

\* The statuses of the updates subscriber s has been given since it
\* subscribed: those its stream has sent on, then those on its queue.
Received(s) ==
    SelectSeq(stream[s].emitted, IsStatus)
        \o [i \in 1..Len(channel[s]) |-> StatusOf(channel[s][i])]

\* C37: a completed or failed update is the last update a subscriber is
\* given for its document: no processing update and no second terminal
\* update follows it.
C37_TerminalUpdateIsLast ==
    \A s \in StreamIds :
        \A i \in 1..Len(Received(s)) :
            Received(s)[i] \in {"completed", "failed"}
                => i = Len(Received(s))

\* A subscriber has on its queue the updates of a whole run: the start of
\* processing, both heartbeat estimates and the completion.
C37_Witness ==
    \E s \in StreamIds :
        /\ Len(channel[s]) = 5
        /\ channel[s][1].processing_progress = -1
        /\ channel[s][4].processing_progress = MaxHeartbeat
        /\ StatusOf(channel[s][5]) = "completed"

\* ---------------------------------------------------------------- C38
\* C38: the temp file of a document whose record is completed or failed
\* does not exist, whichever write made the record terminal.
C38_TerminalWithoutTempFile ==
    \A d \in Docs : Terminal(d) => ~temp_file[d]

\* ---------------------------------------------------------------- C18
\* Stream s was opened on d before the record of d was completed or failed.
OpenBeforeEnd(s, d) ==
    /\ stream[s].pc \in {"waiting", "done", "finally"}
    /\ stream[s].doc = d
    /\ stream[s].status_at_open \notin {"completed", "failed"}

\* Stream s has sent the terminal update of d and then "done", and is
\* closed.
ClosedAfterEnd(s, d) ==
    LET e == stream[s].emitted IN
    /\ stream[s].pc = "closed"
    /\ Len(e) >= 2
    /\ e[Len(e)] = "done"
    /\ e[Len(e) - 1] = Status(d)

\* C18: a stream open on a document whose processing_status becomes
\* completed or failed eventually sends that terminal update and then
\* "done", and ends.
C18_StreamClosesAtEnd ==
    \A s \in StreamIds : \A d \in 1..StreamDocs :
        (OpenBeforeEnd(s, d) /\ Terminal(d)) ~> ClosedAfterEnd(s, d)

====
